---- MODULE Spec2Model ----
(***************************************************************************)
(* Verification model of the TacticGL rendering core.                      *)
(*                                                                         *)
(* One renderer instance is modelled.  `kind` says whether it is a plain   *)
(* subclass of BaseRenderer (the abstract base with its own layer          *)
(* bookkeeping) or an SVGRenderer (which overrides the layer management    *)
(* and the life cycle).  Every public method is one atomic action: the     *)
(* core is single threaded and synchronous, so a call runs to completion,  *)
(* event dispatch included.  What the subscribers saw during the call is   *)
(* recorded in `trace`, one record per emission with the state the         *)
(* callbacks could observe at that moment.                                 *)
(*                                                                         *)
(* Callbacks are user code.  They are modelled as observers that may       *)
(* subscribe or unsubscribe a callback of the event being dispatched;      *)
(* they do not call back into the life-cycle or layer methods.             *)
(*                                                                         *)
(* The RenderEngine factory is modelled by its selection functions and by  *)
(* one action for its constructor; the renderer it hands out is the        *)
(* renderer instance of the model.                                         *)
(***************************************************************************)
EXTENDS Integers, Sequences, FiniteSets, TLC

\* ------------------------------------------------------------------ bounds
MaxSubs    == 2   \* total number of subscriptions held at any time
MaxSurface == 3   \* number of child nodes under the drawing root
MaxContent == 1   \* number of rendered nodes inside one group

\* ------------------------------------------------------------ input domains
NULL == "null"

Kinds == {"base", "svg"}

Containers         == {"c1", "c2"}
AttachedContainers == {"c1"}

EmptyConfig == [width |-> 0, height |-> 0]
Configs     == {[width |-> 105, height |-> 68]}

LayerIds == {"a", "b", "c"}
ZIndexes == {1, 2}

Events == {"init", "render", "update", "clear", "destroy", "error",
           "layerAdded", "layerRemoved"}

Callbacks == {"f", "g", "subG", "unsubG"}

\* What a callback does when it is invoked, besides observing: nothing,
\* or on(event, g) / off(event, g) for the event being dispatched.
CallbackBody(cb) ==
    CASE cb = "subG"   -> [act |-> "on",  target |-> "g"]
      [] cb = "unsubG" -> [act |-> "off", target |-> "g"]
      [] OTHER         -> [act |-> "none", target |-> cb]

KnownTypes == {"circle", "rect", "line", "path", "text", "group"}

Elements == {[type |-> "circle",  id |-> "e1", x |-> 1],
             [type |-> "ellipse", id |-> "e1", x |-> 1]}

RenderData == {<<>>} \cup {<<e>> : e \in Elements}

\* Element ids that are CSS identifiers, so that `#id` is a selector; an id
\* such as "7" is a legal id attribute but `#7` is not a selector.
CssIdentifiers == {"e1"}

UpdateData == {<<>>,
               <<[type |-> "circle", id |-> "e1", x |-> 2]>>,
               <<[type |-> "circle", id |-> "",   x |-> 2]>>,
               <<[type |-> "circle", id |-> "7",  x |-> 2]>>,
               <<[type |-> "circle", id |-> "e1", x |-> 2],
                 [type |-> "circle", id |-> "7",  x |-> 2]>>}

\* ---------------------------------------------------------------- state
VARIABLES
    kind,            \* which class the instance is
    isInitialized,   \* BaseRenderer._isInitialized
    container,       \* BaseRenderer._container
    config,          \* BaseRenderer._config
    layers,          \* BaseRenderer._layers, in Map insertion order
    eventHandlers,   \* BaseRenderer._eventHandlers: event -> Set, in insertion order
    svg,             \* SVGRenderer._svg
    svgLayers,       \* SVGRenderer._svgLayers, in Map insertion order
    surface,         \* children of the drawing root (the <svg>, or the container for the base class)
    destroyed,       \* history: destroy() has been called on this instance
    lastOp,          \* the call that produced this state and whether it threw
    trace,           \* emissions of the last call, in order
    capabilities,    \* what isWebGLSupported / isCanvasSupported / isSVGSupported report
    engine,          \* outcome of the last `new RenderEngine(preference, options)`
    scales,          \* the PitchScale instances constructed so far
    calc,            \* the last PitchScale call: receiver, argument and result
    geometry,        \* a PitchGeometry instance and the marking it returned last
    pitch,           \* the Pitch instance: config, visualizations, isDestroyed
    shotMap          \* the ShotMap instance: data, config.filter, highlight, renderer

vars == <<kind, isInitialized, container, config, layers, eventHandlers,
          svg, svgLayers, surface, destroyed, lastOp, trace,
          capabilities, engine, scales, calc, geometry, pitch, shotMap>>

\* The chart objects, which no renderer method touches.
charts == <<scales, calc, geometry, pitch, shotMap>>

\* ------------------------------------------------------- sequence helpers
Range(s) == {s[i] : i \in 1..Len(s)}

RemoveAt(s, i) == SubSeq(s, 1, i - 1) \o SubSeq(s, i + 1, Len(s))

InsertAt(s, i, x) == SubSeq(s, 1, i - 1) \o <<x>> \o SubSeq(s, i, Len(s))

\* ------------------------------------------------- Map<string, Layer>
HasLayer(reg, id) == \E i \in 1..Len(reg) : reg[i].id = id

IndexOfId(reg, id) ==
    CHOOSE i \in 1..Len(reg) :
        reg[i].id = id /\ \A j \in 1..(i - 1) : reg[j].id # id

MapGet(reg, id) == reg[IndexOfId(reg, id)]

\* A set() that never replaces.
MapSet_Append(reg, id, layer) == Append(reg, layer)

\* Map.prototype.set: an existing key keeps its place, a new key goes last.
MapSet(reg, id, layer) ==
    IF HasLayer(reg, id)
    THEN [reg EXCEPT ![IndexOfId(reg, id)] = layer]
    ELSE Append(reg, layer)

\* A delete() that drops the most recent entry, whatever the key.
MapDelete_Last(reg, id) == SubSeq(reg, 1, Len(reg) - 1)

\* Map.prototype.delete
MapDelete(reg, id) == SelectSeq(reg, LAMBDA l : l.id # id)

\* Array.prototype.sort((a, b) => a.zIndex - b.zIndex): stable.
InsertSorted(sorted, l) ==
    LET n == Cardinality({i \in 1..Len(sorted) : sorted[i].zIndex <= l.zIndex})
    IN  InsertAt(sorted, n + 1, l)

RECURSIVE SortByZIndex(_)
SortByZIndex(reg) ==
    IF reg = <<>> THEN <<>>
    ELSE InsertSorted(SortByZIndex(SubSeq(reg, 1, Len(reg) - 1)), reg[Len(reg)])

\* getLayers() without the sort: Map order.
getLayers_Unsorted(reg) == reg

\* getLayers(), on either registry
getLayers(reg) == SortByZIndex(reg)

IdsOf(reg) == [i \in 1..Len(reg) |-> reg[i].id]

\* ------------------------------------------------------------- numbers
\* A JavaScript number as far as opacity needs it: NaN, or a value counted
\* in halves (Num(2) is 1, Num(1) is 0.5, Num(3) is 1.5, Num(-1) is -0.5).
Num(v) == [nan |-> FALSE, val |-> v]

NaN == [nan |-> TRUE, val |-> 0]

Zero == Num(0)

One == Num(2)

\* Math.min(a, b) and Math.max(a, b): NaN as soon as one argument is NaN
MathMin(a, b) == IF a.nan \/ b.nan THEN NaN ELSE IF a.val <= b.val THEN a ELSE b

MathMax(a, b) == IF a.nan \/ b.nan THEN NaN ELSE IF a.val >= b.val THEN a ELSE b

\* The values setOpacity is called with: -0.5, 0.5, 1.5 and NaN.
OpacityInputs == {Num(v) : v \in {-1, 1, 3}} \cup {NaN}

\* new BaseLayer(id, zIndex, element) / new SVGLayer(id, zIndex, element).
\* content is the child list of the layer's element, inRoot says whether
\* that element is a child of the current drawing root.
NewLayer(id, zIndex, inRoot) ==
    [id |-> id, zIndex |-> zIndex, visible |-> TRUE, opacity |-> One,
     content |-> <<>>, inRoot |-> inRoot]

\* layer.show()
LayerShow(l) == [l EXCEPT !.visible = TRUE]

\* layer.hide()
LayerHide(l) == [l EXCEPT !.visible = FALSE]

\* layer.setOpacity(value): this.opacity = Math.max(0, Math.min(1, value))
LayerSetOpacity(l, value) ==
    [l EXCEPT !.opacity = MathMax(Zero, MathMin(One, value))]

\* A clear() that leaves the children where they are.
LayerClear_Keeps(l) == l

\* layer.clear()
LayerClear(l) == [l EXCEPT !.content = <<>>]

ClearAll(reg) == [i \in 1..Len(reg) |-> LayerClear(reg[i])]

\* ------------------------------------------------------ nodes of the root
\* The element of the registered layer `id`.
LayerNode(id) ==
    [tag |-> "layer", id |-> id, zIndex |-> 0, content |-> <<>>,
     type |-> "g", x |-> 0]

\* An element that was created for a layer which the registry no longer holds.
OrphanNode(l) ==
    [tag |-> "orphan", id |-> l.id, zIndex |-> l.zIndex, content |-> l.content,
     type |-> "g", x |-> 0]

\* A rendered element appended directly to the root.
ElemNode(e) ==
    [tag |-> "elem", id |-> e.id, zIndex |-> 0, content |-> <<>>,
     type |-> e.type, x |-> e.x]

IsLayerNodeOf(n, id) == n.tag = "layer" /\ n.id = id

LayerNodeIndex(surf, id) == CHOOSE i \in 1..Len(surf) : IsLayerNodeOf(surf[i], id)

\* The registry lets go of layer l while its element stays where it is.
Abandon(surf, l) ==
    [i \in 1..Len(surf) |->
        IF IsLayerNodeOf(surf[i], l.id) THEN OrphanNode(l) ELSE surf[i]]

RECURSIVE AbandonAll(_, _)
AbandonAll(surf, reg) ==
    IF reg = <<>> THEN surf
    ELSE AbandonAll(Abandon(surf, reg[1]), Tail(reg))

\* ----------------------------------------------------------- event system
SetAdd(s, x) == IF x \in Range(s) THEN s ELSE Append(s, x)

SetDelete(s, x) == SelectSeq(s, LAMBDA y : y # x)

NoHandlers == [e \in Events |-> <<>>]

NumSubs(h) == Len(h["init"]) + Len(h["render"]) + Len(h["update"])
            + Len(h["clear"]) + Len(h["destroy"]) + Len(h["error"])
            + Len(h["layerAdded"]) + Len(h["layerRemoved"])

\* A dispatch that walks the handlers last to first.
ForEach_Reversed(hs, i, invoked) ==
    [handlers |-> hs, invoked |-> [k \in 1..Len(hs) |-> hs[Len(hs) + 1 - k]]]

\* handlers.forEach(handler => handler(payload)) over a Set: entries are
\* visited in insertion order, an entry added during the walk is visited,
\* an entry deleted before its turn is not.
RECURSIVE ForEach(_, _, _)
ForEach(hs, i, invoked) ==
    IF i > Len(hs)
    THEN [handlers |-> hs, invoked |-> invoked]
    ELSE LET cb   == hs[i]
             body == CallbackBody(cb)
             hs2  == CASE body.act = "on"  -> SetAdd(hs, body.target)
                       [] body.act = "off" -> SetDelete(hs, body.target)
                       [] OTHER            -> hs
             gone == body.act = "off" /\ \E j \in 1..i : hs[j] = body.target
         IN  ForEach(hs2, IF gone THEN i ELSE i + 1, Append(invoked, cb))

NoPayload == [layerId |-> "", container |-> NULL, data |-> <<>>]

\* What a subscriber can observe through the public getters while it runs.
Snapshot(init, cont, root, reg) ==
    [isInitialized |-> init, container |-> cont, svg |-> root,
     layerIds |-> IdsOf(getLayers(reg))]

\* emit(event, payload): the handlers after the dispatch and its record.
emit(h, event, payload, snap) ==
    LET r == ForEach(h[event], 1, <<>>)
    IN  [handlers |-> [h EXCEPT ![event] = r.handlers],
         rec      |-> [event |-> event, payload |-> payload,
                       subs |-> h[event], invoked |-> r.invoked, snap |-> snap]]

Op(name, threw, id, zIndex) ==
    [name |-> name, threw |-> threw, id |-> id, zIndex |-> zIndex,
     value |-> Zero]

\* ------------------------------------------------------------------ Init
\* A renderer that was constructed directly: no engine is involved.
NoEngine ==
    [status |-> "none", error |-> "", type |-> "", fallbackUsed |-> FALSE,
     requestedType |-> "", force |-> FALSE]

AllSupported == [webgl |-> TRUE, canvas |-> TRUE, svg |-> TRUE]

\* The fields of a renderer right after `new`.
FreshRenderer ==
    /\ isInitialized = FALSE
    /\ container = NULL
    /\ config = EmptyConfig
    /\ layers = <<>>
    /\ eventHandlers = NoHandlers
    /\ svg = NULL
    /\ svgLayers = <<>>
    /\ surface = <<>>
    /\ destroyed = FALSE
    /\ lastOp = Op("new", FALSE, "", 0)
    /\ trace = <<>>

\* No chart object has been constructed.
NoCalc == [op |-> "none"]
NoGeometry == [constructed |-> FALSE, threw |-> FALSE]
NoPitch == [constructed |-> FALSE, isDestroyed |-> FALSE]
NoShotMap == [constructed |-> FALSE, attached |-> FALSE, destroyed |-> FALSE]

NoCharts ==
    /\ scales = <<>>
    /\ calc = NoCalc
    /\ geometry = NoGeometry
    /\ pitch = NoPitch
    /\ shotMap = NoShotMap

Init ==
    /\ kind \in Kinds
    /\ FreshRenderer
    /\ capabilities = AllSupported
    /\ engine = NoEngine
    /\ NoCharts

\* A call that throws before touching anything.
Throws(name, id, zIndex) ==
    /\ lastOp' = Op(name, TRUE, id, zIndex)
    /\ trace' = <<>>
    /\ UNCHANGED <<charts, capabilities, engine, kind, isInitialized, container, config, layers,
                   eventHandlers, svg, svgLayers, surface, destroyed>>

\* -------------------------------------------------------------- on / off
On(event, cb) ==
    /\ NumSubs([eventHandlers EXCEPT ![event] = SetAdd(@, cb)]) <= MaxSubs
    /\ eventHandlers' = [eventHandlers EXCEPT ![event] = SetAdd(@, cb)]
    /\ lastOp' = Op("on", FALSE, "", 0)
    /\ trace' = <<>>
    /\ UNCHANGED <<charts, capabilities, engine, kind, isInitialized, container, config, layers,
                   svg, svgLayers, surface, destroyed>>

Off(event, cb) ==
    /\ eventHandlers' = [eventHandlers EXCEPT ![event] = SetDelete(@, cb)]
    /\ lastOp' = Op("off", FALSE, "", 0)
    /\ trace' = <<>>
    /\ UNCHANGED <<charts, capabilities, engine, kind, isInitialized, container, config, layers,
                   svg, svgLayers, surface, destroyed>>

\* ------------------------------------------------------------------ init
\* SVGRenderer.createRenderContext: a fresh <svg> becomes the root; the
\* elements of layers registered earlier stay in the previous root.
SvgRootLayers(reg) == [i \in 1..Len(reg) |-> [reg[i] EXCEPT !.inRoot = FALSE]]

\* A validation that only rejects a missing container.
InvalidContainer_NullOnly(c) == c = NULL

\* if (!container) throw ...; if (!document.body.contains(container)) throw ...
InvalidContainer(c) == c = NULL \/ c \notin AttachedContainers

RendererInit(c, cfg) ==
    IF InvalidContainer(c)
    THEN Throws("init", "", 0)
    ELSE LET reg == IF kind = "svg" THEN SvgRootLayers(svgLayers) ELSE layers
             e   == emit(eventHandlers, "init",
                         [NoPayload EXCEPT !.container = c],
                         Snapshot(TRUE, c, IF kind = "svg" THEN "svg" ELSE NULL, reg))
         IN  /\ container' = c
             /\ config' = cfg
             /\ IF kind = "svg"
                THEN /\ svg' = "svg"
                     /\ svgLayers' = reg
                     /\ surface' = <<>>
                ELSE UNCHANGED <<svg, svgLayers, surface>>
             /\ isInitialized' = TRUE
             /\ eventHandlers' = e.handlers
             /\ trace' = <<e.rec>>
             /\ lastOp' = Op("init", FALSE, "", 0)
             /\ UNCHANGED <<charts, capabilities, engine, kind, layers, destroyed>>

\* --------------------------------------------------------------- destroy
\* A destroy that forgets to clear the handlers.
ClearHandlers_Keeps(h) == h

\* this._eventHandlers.clear()
ClearHandlers(h) == NoHandlers

\* A destroy that forgets to reset the flag.
ResetState_KeepsInitialized ==
    [container |-> NULL, config |-> EmptyConfig, isInitialized |-> TRUE]

\* this._container = null; this._config = {}; this._isInitialized = false
ResetState == [container |-> NULL, config |-> EmptyConfig, isInitialized |-> FALSE]

\* BaseRenderer.destroy: emit first, then drop the layers, the handlers and
\* the state.  The layers' elements are emptied but stay in the container.
BaseDestroy ==
    /\ kind = "base"
    /\ LET e == emit(eventHandlers, "destroy", NoPayload,
                     Snapshot(isInitialized, container, svg, layers))
       IN  /\ surface' = AbandonAll(surface, ClearAll(layers))
           /\ layers' = <<>>
           /\ eventHandlers' = ClearHandlers(e.handlers)
           /\ container' = ResetState.container
           /\ config' = ResetState.config
           /\ isInitialized' = ResetState.isInitialized
           /\ trace' = <<e.rec>>
    /\ destroyed' = TRUE
    /\ lastOp' = Op("destroy", FALSE, "", 0)
    /\ UNCHANGED <<charts, capabilities, engine, kind, svg, svgLayers>>

\* SVGRenderer.destroy: emit, drop the layers, remove the <svg>, then run
\* BaseRenderer.destroy, which emits again before it clears the handlers.
SvgDestroy ==
    /\ kind = "svg"
    /\ LET e1 == emit(eventHandlers, "destroy", NoPayload,
                      Snapshot(isInitialized, container, svg, svgLayers))
           e2 == emit(e1.handlers, "destroy", NoPayload,
                      Snapshot(isInitialized, container, NULL, <<>>))
       IN  /\ svgLayers' = <<>>
           /\ svg' = NULL
           /\ surface' = <<>>
           /\ layers' = <<>>
           /\ eventHandlers' = ClearHandlers(e2.handlers)
           /\ container' = ResetState.container
           /\ config' = ResetState.config
           /\ isInitialized' = ResetState.isInitialized
           /\ trace' = <<e1.rec, e2.rec>>
    /\ destroyed' = TRUE
    /\ lastOp' = Op("destroy", FALSE, "", 0)
    /\ UNCHANGED <<charts, capabilities, engine, kind>>

\* -------------------------------------------------------------- addLayer
\* The emission moved in front of the registration.
LayerAddedEmit_BeforeSet(h, reg, id, init, cont, root) ==
    emit(h, "layerAdded", [NoPayload EXCEPT !.layerId = id],
         Snapshot(init, cont, root, MapDelete(reg, id)))

\* this.emit('layerAdded', { layer }) once the layer is in the registry
LayerAddedEmit(h, reg, id, init, cont, root) ==
    emit(h, "layerAdded", [NoPayload EXCEPT !.layerId = id],
         Snapshot(init, cont, root, reg))

\* BaseRenderer.addLayer: a new <div> is appended to the container and the
\* layer is stored under its id; an element stored earlier under the same
\* id stays in the container.
BaseAddLayer(id, zIndex) ==
    /\ kind = "base"
    /\ IF container = NULL
       THEN Throws("addLayer", id, zIndex)
       ELSE /\ Len(surface) < MaxSurface
            /\ LET reg  == MapSet(layers, id, NewLayer(id, zIndex, TRUE))
                   surf == IF HasLayer(layers, id)
                           THEN Abandon(surface, MapGet(layers, id))
                           ELSE surface
                   e    == LayerAddedEmit(eventHandlers, reg, id,
                                          isInitialized, container, svg)
               IN  /\ layers' = reg
                   /\ surface' = Append(surf, LayerNode(id))
                   /\ eventHandlers' = e.handlers
                   /\ trace' = <<e.rec>>
            /\ lastOp' = Op("addLayer", FALSE, id, zIndex)
            /\ UNCHANGED <<charts, capabilities, engine, kind, isInitialized, container, config,
                           svg, svgLayers, destroyed>>

\* The layers _insertLayerInOrder may pick as reference node: the registered
\* layers other than the new one whose zIndex is strictly greater, in
\* getLayers() order.
Above(reg, id, zIndex) ==
    SelectSeq(getLayers(reg), LAMBDA l : l.zIndex > zIndex /\ l.id # id)

\* SVGRenderer.addLayer with _insertLayerInOrder: the layer is stored first,
\* then its <g> is inserted before the element of the first layer above it,
\* or appended.  insertBefore throws when that element is not a child of the
\* current <svg>; the layer is registered by then and no event is emitted.
SvgAddLayer(id, zIndex) ==
    /\ kind = "svg"
    /\ IF svg = NULL
       THEN Throws("addLayer", id, zIndex)
       ELSE /\ Len(surface) < MaxSurface
            /\ LET reg   == MapSet(svgLayers, id, NewLayer(id, zIndex, FALSE))
                   surf  == IF HasLayer(svgLayers, id) /\ MapGet(svgLayers, id).inRoot
                            THEN Abandon(surface, MapGet(svgLayers, id))
                            ELSE surface
                   above == Above(reg, id, zIndex)
                   regIn == MapSet(reg, id, NewLayer(id, zIndex, TRUE))
                   e     == LayerAddedEmit(eventHandlers, regIn, id,
                                           isInitialized, container, svg)
               IN  IF above # <<>> /\ ~above[1].inRoot
                   THEN /\ svgLayers' = reg
                        /\ surface' = surf
                        /\ trace' = <<>>
                        /\ lastOp' = Op("addLayer", TRUE, id, zIndex)
                        /\ UNCHANGED eventHandlers
                   ELSE /\ svgLayers' = regIn
                        /\ surface' =
                              IF above # <<>>
                              THEN InsertAt(surf, LayerNodeIndex(surf, above[1].id),
                                            LayerNode(id))
                              ELSE Append(surf, LayerNode(id))
                        /\ eventHandlers' = e.handlers
                        /\ trace' = <<e.rec>>
                        /\ lastOp' = Op("addLayer", FALSE, id, zIndex)
            /\ UNCHANGED <<charts, capabilities, engine, kind, isInitialized, container, config,
                           layers, svg, destroyed>>

\* ----------------------------------------------------------- removeLayer
\* this.emit('layerRemoved', { layerId: id }) once the layer is deleted
LayerRemovedEmit(h, reg, id, init, cont, root) ==
    emit(h, "layerRemoved", [NoPayload EXCEPT !.layerId = id],
         Snapshot(init, cont, root, reg))

\* An unknown id: the call returns without doing anything.
RemoveNothing(id) ==
    /\ lastOp' = Op("removeLayer", FALSE, id, 0)
    /\ trace' = <<>>
    /\ UNCHANGED <<charts, capabilities, engine, kind, isInitialized, container, config, layers,
                   eventHandlers, svg, svgLayers, surface, destroyed>>

\* document.getElementById(`layer-${id}`): the first element carrying the id
FirstWithLayerId(surf, id) ==
    CHOOSE i \in 1..Len(surf) :
        /\ surf[i].tag \in {"layer", "orphan"} /\ surf[i].id = id
        /\ \A j \in 1..(i - 1) :
              ~(surf[j].tag \in {"layer", "orphan"} /\ surf[j].id = id)

BaseRemoveLayer(id) ==
    /\ kind = "base"
    /\ IF ~HasLayer(layers, id)
       THEN RemoveNothing(id)
       ELSE /\ LET l    == MapGet(layers, id)
                   reg  == MapDelete(layers, id)
                   surf == Abandon(RemoveAt(surface, FirstWithLayerId(surface, id)), l)
                   e    == LayerRemovedEmit(eventHandlers, reg, id,
                                            isInitialized, container, svg)
               IN  /\ layers' = reg
                   /\ surface' = surf
                   /\ eventHandlers' = e.handlers
                   /\ trace' = <<e.rec>>
            /\ lastOp' = Op("removeLayer", FALSE, id, 0)
            /\ UNCHANGED <<charts, capabilities, engine, kind, isInitialized, container, config,
                           svg, svgLayers, destroyed>>

SvgRemoveLayer(id) ==
    /\ kind = "svg"
    /\ IF ~HasLayer(svgLayers, id)
       THEN RemoveNothing(id)
       ELSE /\ LET l   == MapGet(svgLayers, id)
                   reg == MapDelete(svgLayers, id)
                   e   == LayerRemovedEmit(eventHandlers, reg, id,
                                           isInitialized, container, svg)
               IN  /\ svgLayers' = reg
                   /\ surface' = IF l.inRoot
                                 THEN RemoveAt(surface, LayerNodeIndex(surface, id))
                                 ELSE surface
                   /\ eventHandlers' = e.handlers
                   /\ trace' = <<e.rec>>
            /\ lastOp' = Op("removeLayer", FALSE, id, 0)
            /\ UNCHANGED <<charts, capabilities, engine, kind, isInitialized, container, config,
                           layers, svg, destroyed>>

\* ----------------------------------------------------------------- clear
BaseClear ==
    /\ kind = "base"
    /\ LET reg == ClearAll(layers)
           e   == emit(eventHandlers, "clear", NoPayload,
                       Snapshot(isInitialized, container, svg, reg))
       IN  /\ layers' = reg
           /\ eventHandlers' = e.handlers
           /\ trace' = <<e.rec>>
    /\ lastOp' = Op("clear", FALSE, "", 0)
    /\ UNCHANGED <<charts, capabilities, engine, kind, isInitialized, container, config,
                   svg, svgLayers, surface, destroyed>>

SvgClear ==
    /\ kind = "svg"
    /\ LET reg == ClearAll(svgLayers)
           e   == emit(eventHandlers, "clear", NoPayload,
                       Snapshot(isInitialized, container, svg, reg))
       IN  /\ svgLayers' = reg
           /\ eventHandlers' = e.handlers
           /\ trace' = <<e.rec>>
    /\ lastOp' = Op("clear", FALSE, "", 0)
    /\ UNCHANGED <<charts, capabilities, engine, kind, isInitialized, container, config,
                   layers, svg, surface, destroyed>>

\* ---------------------------------------------------------------- render
\* The guard left out.
NotReady_Missing(root, init) == FALSE

\* if (!this._svg || !this.isInitialized) throw ...
NotReady(root, init) == root = NULL \/ ~init

\* _createSVGElement: one node per element of a known type, none otherwise
CreatedNodes(data) == SelectSeq(data, LAMBDA e : e.type \in KnownTypes)

\* SVGRenderer.render(data, {layer, clear}): the nodes go into the element of
\* the named layer when it is registered, under the root otherwise.
SvgRender(data, layer, clear) ==
    /\ kind = "svg"
    /\ IF NotReady(svg, isInitialized)
       THEN Throws("render", "", 0)
       ELSE LET hasTarget == layer # NULL /\ HasLayer(svgLayers, layer)
                target    == MapGet(svgLayers, layer)
                cleared   == IF clear THEN LayerClear(target) ELSE target
                filled    == [cleared EXCEPT !.content = @ \o CreatedNodes(data)]
                reg       == IF hasTarget THEN MapSet(svgLayers, layer, filled)
                             ELSE svgLayers
                surf      == IF hasTarget THEN surface
                             ELSE surface \o [i \in 1..Len(CreatedNodes(data)) |->
                                                 ElemNode(CreatedNodes(data)[i])]
                e         == emit(eventHandlers, "render",
                                  [NoPayload EXCEPT !.data = data],
                                  Snapshot(isInitialized, container, svg, reg))
            IN  /\ Len(surf) <= MaxSurface
                /\ hasTarget => Len(filled.content) <= MaxContent
                /\ svgLayers' = reg
                /\ surface' = surf
                /\ eventHandlers' = e.handlers
                /\ trace' = <<e.rec>>
                /\ lastOp' = Op("render", FALSE, "", 0)
                /\ UNCHANGED <<charts, capabilities, engine, kind, isInitialized, container, config,
                               layers, svg, destroyed>>

\* ---------------------------------------------------------------- update
\* The child list of a group node under the root.
GroupContent(reg, n) ==
    CASE n.tag = "layer"  -> MapGet(reg, n.id).content
      [] n.tag = "orphan" -> n.content
      [] OTHER            -> <<>>

\* Places under the root, <<child, 0>> or <<child, grandchild>>, holding a
\* node whose id attribute is `id`.
Matches(surf, reg, id) ==
    {<<i, 0>> : i \in {k \in 1..Len(surf) : surf[k].tag = "elem" /\ surf[k].id = id}}
    \cup
    UNION {{<<i, j>> : j \in {k \in 1..Len(GroupContent(reg, surf[i])) :
                                 GroupContent(reg, surf[i])[k].id = id}} :
           i \in 1..Len(surf)}

\* this._svg.querySelector(`#${id}`): the first match in document order
FirstMatch(ms) ==
    CHOOSE p \in ms :
        \A q \in ms : p[1] < q[1] \/ (p[1] = q[1] /\ p[2] <= q[2])

\* querySelector throws a SyntaxError when `#${id}` is not a selector.
SelectorThrows(id) == id # "" /\ id \notin CssIdentifiers

\* _findElement + _updateElementAttributes for one element of the data
UpdateOne(st, e) ==
    LET ms == Matches(st.surface, st.reg, e.id)
    IN  IF SelectorThrows(e.id)
        THEN [st EXCEPT !.threw = TRUE]
        ELSE IF e.id = "" \/ ms = {}
        THEN st
        ELSE LET p == FirstMatch(ms)
                 n == st.surface[p[1]]
             IN  CASE p[2] = 0 ->
                        [st EXCEPT !.surface[p[1]].x = e.x]
                   [] p[2] # 0 /\ n.tag = "orphan" ->
                        [st EXCEPT !.surface[p[1]].content[p[2]].x = e.x]
                   [] OTHER ->
                        [st EXCEPT !.reg[IndexOfId(st.reg, n.id)].content[p[2]].x = e.x]

RECURSIVE UpdateEach(_, _)
UpdateEach(st, data) ==
    IF data = <<>> \/ st.threw THEN st
    ELSE UpdateEach(UpdateOne(st, Head(data)), Tail(data))

\* SVGRenderer.update(data, transition): nodes are looked up and changed
\* only inside the `if (transition && data.elements)` branch.  A lookup that
\* throws ends the call there: the elements before it have been applied and
\* no event is emitted.
SvgUpdate(data, transition) ==
    /\ kind = "svg"
    /\ IF NotReady(svg, isInitialized)
       THEN Throws("update", "", 0)
       ELSE LET st0 == [surface |-> surface, reg |-> svgLayers, threw |-> FALSE]
                st  == IF transition THEN UpdateEach(st0, data) ELSE st0
                e   == emit(eventHandlers, "update",
                            [NoPayload EXCEPT !.data = data],
                            Snapshot(isInitialized, container, svg, st.reg))
            IN  /\ svgLayers' = st.reg
                /\ surface' = st.surface
                /\ IF st.threw
                   THEN /\ trace' = <<>>
                        /\ lastOp' = Op("update", TRUE, "", 0)
                        /\ UNCHANGED eventHandlers
                   ELSE /\ eventHandlers' = e.handlers
                        /\ trace' = <<e.rec>>
                        /\ lastOp' = Op("update", FALSE, "", 0)
                /\ UNCHANGED <<charts, capabilities, engine, kind, isInitialized, container, config,
                               layers, svg, destroyed>>

\* ------------------------------------------------------ layer operations
\* A method whose effect lands on every layer of the registry.
OnLayer_All(reg, id, after) ==
    [i \in 1..Len(reg) |-> [after EXCEPT !.id = reg[i].id]]

\* getLayer(id).method(): the method runs on the one Layer object stored
\* under the id and touches that object and its element only; `after` is
\* that object once the method has run.
OnLayer(reg, id, after) ==
    [i \in 1..Len(reg) |-> IF reg[i].id = id THEN after ELSE reg[i]]

\* A call of a Layer method on the registered layer `id`; no event is
\* emitted by the Layer classes.
LayerCall(name, id, value, reg) ==
    /\ IF kind = "svg"
       THEN svgLayers' = reg /\ UNCHANGED layers
       ELSE layers' = reg /\ UNCHANGED svgLayers
    /\ lastOp' = [Op(name, FALSE, id, 0) EXCEPT !.value = value]
    /\ trace' = <<>>
    /\ UNCHANGED <<charts, capabilities, engine, kind, isInitialized, container, config,
                   eventHandlers, svg, surface, destroyed>>

\* The registry of the class in use.
LayersInUse == IF kind = "svg" THEN svgLayers ELSE layers

Show(id) ==
    /\ HasLayer(LayersInUse, id)
    /\ LayerCall("show", id, Zero,
                 OnLayer(LayersInUse, id, LayerShow(MapGet(LayersInUse, id))))

Hide(id) ==
    /\ HasLayer(LayersInUse, id)
    /\ LayerCall("hide", id, Zero,
                 OnLayer(LayersInUse, id, LayerHide(MapGet(LayersInUse, id))))

SetOpacity(id, value) ==
    /\ HasLayer(LayersInUse, id)
    /\ LayerCall("setOpacity", id, value,
                 OnLayer(LayersInUse, id,
                         LayerSetOpacity(MapGet(LayersInUse, id), value)))

ClearLayer(id) ==
    /\ HasLayer(LayersInUse, id)
    /\ LayerCall("layer.clear", id, Zero,
                 OnLayer(LayersInUse, id, LayerClear(MapGet(LayersInUse, id))))

\* ---------------------------------------------------------- RenderEngine
RendererTypes == {"svg", "canvas", "webgl"}

Preferences == RendererTypes \cup {"auto"}

\* What the three detection functions may report in one environment.
CapabilitySets == [webgl : BOOLEAN, canvas : BOOLEAN, svg : BOOLEAN]

\* _isRendererSupported(type)
IsRendererSupported(type, caps) ==
    CASE type = "webgl"  -> caps.webgl
      [] type = "canvas" -> caps.canvas
      [] type = "svg"    -> caps.svg
      [] OTHER           -> FALSE

\* _getFallbackOrder(requested)
GetFallbackOrder(requested) ==
    CASE requested = "webgl"  -> <<"canvas", "svg">>
      [] requested = "canvas" -> <<"svg">>
      [] OTHER                -> <<"svg">>

Selected(type, fallbackUsed) ==
    [threw |-> FALSE, error |-> "", type |-> type, fallbackUsed |-> fallbackUsed]

Thrown(error) ==
    [threw |-> TRUE, error |-> error, type |-> "", fallbackUsed |-> FALSE]

\* _createRenderer(type): only the SVG renderer exists, the other two cases
\* throw a plain Error.
CreateRenderer(type, fallbackUsed) ==
    IF type = "svg" THEN Selected("svg", fallbackUsed) ELSE Thrown("Error")

\* _selectBestAvailable(): every path returns a new SVGRenderer
SelectBestAvailable(caps) == Selected("svg", FALSE)

\* _fallback(requested): the first supported entry of the fallback order is
\* created; when none is supported an SVGRenderer is returned all the same.
RECURSIVE FallbackOver(_, _)
FallbackOver(order, caps) ==
    IF order = <<>> THEN Selected("svg", TRUE)
    ELSE IF IsRendererSupported(Head(order), caps)
         THEN CreateRenderer(Head(order), TRUE)
         ELSE FallbackOver(Tail(order), caps)

Fallback(requested, caps) == FallbackOver(GetFallbackOrder(requested), caps)

\* A selection that falls back even when force is set.
SelectRenderer_IgnoresForce(preference, force, caps) ==
    IF preference = "auto" THEN SelectBestAvailable(caps)
    ELSE IF IsRendererSupported(preference, caps)
         THEN CreateRenderer(preference, FALSE)
         ELSE Fallback(preference, caps)

\* _selectRenderer(preference, options)
SelectRenderer(preference, force, caps) ==
    IF preference = "auto" THEN SelectBestAvailable(caps)
    ELSE IF IsRendererSupported(preference, caps)
         THEN CreateRenderer(preference, FALSE)
         ELSE IF force
              THEN Thrown("RendererNotSupportedError")
              ELSE Fallback(preference, caps)

\* new RenderEngine(preference, {force}).  When the constructor returns,
\* engine.renderer is a new SVGRenderer, which is the renderer instance the
\* other actions then work on; when it throws there is no engine.
NewRenderEngine(preference, force) ==
    /\ kind = "svg"
    /\ LET r == SelectRenderer(preference, force, capabilities)
       IN  engine' = [status        |-> IF r.threw THEN "threw" ELSE "ok",
                      error         |-> r.error,
                      type          |-> r.type,
                      fallbackUsed  |-> r.fallbackUsed,
                      requestedType |-> preference,
                      force         |-> force]
    /\ isInitialized' = FALSE
    /\ container' = NULL
    /\ config' = EmptyConfig
    /\ layers' = <<>>
    /\ eventHandlers' = NoHandlers
    /\ svg' = NULL
    /\ svgLayers' = <<>>
    /\ surface' = <<>>
    /\ destroyed' = FALSE
    /\ lastOp' = Op("new", FALSE, "", 0)
    /\ trace' = <<>>
    /\ UNCHANGED <<charts, capabilities, kind>>

\* ------------------------------------------------------- specifications
\* Life cycle, subscriptions and one layer: what subscribers are told, and
\* what they can observe when they are told.
Observers == {"f", "g"}

OneLayer == {"a"}

OneZIndex == {1}

Next ==
    \/ \E c \in Containers \cup {NULL}, cfg \in Configs : RendererInit(c, cfg)
    \/ \E e \in Events, cb \in Observers : On(e, cb)
    \/ \E e \in Events, cb \in Observers : Off(e, cb)
    \/ BaseDestroy
    \/ SvgDestroy
    \/ \E id \in OneLayer, z \in OneZIndex : BaseAddLayer(id, z)
    \/ \E id \in OneLayer, z \in OneZIndex : SvgAddLayer(id, z)
    \/ \E id \in OneLayer : BaseRemoveLayer(id)
    \/ \E id \in OneLayer : SvgRemoveLayer(id)
    \/ BaseClear
    \/ SvgClear

Spec == Init /\ [][Next]_vars

\* Life cycle and layer management over several layers, no subscribers.
NextLayers ==
    \/ \E c \in Containers \cup {NULL}, cfg \in Configs : RendererInit(c, cfg)
    \/ BaseDestroy
    \/ SvgDestroy
    \/ \E id \in LayerIds, z \in ZIndexes : BaseAddLayer(id, z)
    \/ \E id \in LayerIds, z \in ZIndexes : SvgAddLayer(id, z)
    \/ \E id \in LayerIds : BaseRemoveLayer(id)
    \/ \E id \in LayerIds : SvgRemoveLayer(id)
    \/ BaseClear
    \/ SvgClear

SpecLayers == Init /\ [][NextLayers]_vars

\* The SVG renderer drawing into one layer or under the root, no subscribers.
NextRender ==
    \/ \E c \in Containers \cup {NULL}, cfg \in Configs : RendererInit(c, cfg)
    \/ SvgDestroy
    \/ \E id \in OneLayer, z \in OneZIndex : SvgAddLayer(id, z)
    \/ \E id \in OneLayer : SvgRemoveLayer(id)
    \/ SvgClear
    \/ \E d \in RenderData, l \in OneLayer \cup {NULL}, c \in BOOLEAN : SvgRender(d, l, c)
    \/ \E d \in UpdateData, t \in BOOLEAN : SvgUpdate(d, t)

InitSvg == Init /\ kind = "svg"

SpecRender == InitSvg /\ [][NextRender]_vars

\* Two layers, drawing into them, and the methods of the Layer objects.  The
\* caller initializes once, adds each id once and draws into registered
\* layers.
TwoLayers == {"a", "b"}

Circles == {<<[type |-> "circle", id |-> "e1", x |-> 1]>>}

NextLayerOps ==
    \/ \E c \in AttachedContainers, cfg \in Configs :
          ~isInitialized /\ RendererInit(c, cfg)
    \/ \E id \in TwoLayers, z \in ZIndexes :
          ~HasLayer(layers, id) /\ BaseAddLayer(id, z)
    \/ \E id \in TwoLayers, z \in ZIndexes :
          ~HasLayer(svgLayers, id) /\ SvgAddLayer(id, z)
    \/ \E id \in TwoLayers : BaseRemoveLayer(id)
    \/ \E id \in TwoLayers : SvgRemoveLayer(id)
    \/ \E d \in Circles, l \in TwoLayers :
          HasLayer(svgLayers, l) /\ SvgRender(d, l, FALSE)
    \/ \E id \in TwoLayers : Show(id)
    \/ \E id \in TwoLayers : Hide(id)
    \/ \E id \in TwoLayers, v \in OpacityInputs : SetOpacity(id, v)
    \/ \E id \in TwoLayers : ClearLayer(id)

SpecLayerOps == Init /\ [][NextLayerOps]_vars

\* Engines constructed in every environment, and the renderer of the engine
\* in use.
InitEngine ==
    /\ kind = "svg"
    /\ FreshRenderer
    /\ capabilities \in CapabilitySets
    /\ engine = NoEngine
    /\ NoCharts

NextEngine ==
    \/ \E p \in Preferences, f \in BOOLEAN : NewRenderEngine(p, f)
    \/ \E c \in Containers \cup {NULL}, cfg \in Configs :
          engine.status = "ok" /\ RendererInit(c, cfg)
    \/ \E id \in OneLayer, z \in OneZIndex :
          engine.status = "ok" /\ SvgAddLayer(id, z)
    \/ engine.status = "ok" /\ SvgDestroy

SpecEngine == InitEngine /\ [][NextEngine]_vars

\* ---------------------------------------------------------------- claims
\* The registry the public layer methods of this instance work on.
Registry == IF kind = "svg" THEN svgLayers ELSE layers

\* How often cb was invoked during the last call.
TimesInvoked(cb) ==
    Cardinality(UNION {{<<i, j>> : j \in {k \in 1..Len(trace[i].invoked) :
                                              trace[i].invoked[k] = cb}} :
                       i \in 1..Len(trace)})

IsPrefix(s, t) == Len(s) <= Len(t) /\ SubSeq(t, 1, Len(s)) = s

SortedByZ(s) ==
    \A i, j \in 1..Len(s) : i < j => s[i].zIndex <= s[j].zIndex

EachOnce(reg, out) ==
    /\ Len(out) = Len(reg)
    /\ \A i \in 1..Len(reg) :
          Cardinality({j \in 1..Len(out) : out[j] = reg[i]}) = 1

IsGroup(n) == n.tag \in {"layer", "orphan"}

GroupZ(n) == IF n.tag = "layer" THEN MapGet(svgLayers, n.id).zIndex ELSE n.zIndex

C2_ThrowsWhenNotInitialized ==
    [][(~isInitialized /\ lastOp'.name \in {"render", "update", "addLayer"})
          => /\ lastOp'.threw
             /\ trace' = <<>>
             /\ surface' = surface
             /\ svgLayers' = svgLayers
             /\ layers' = layers
             /\ eventHandlers' = eventHandlers]_vars

C2_Witness == destroyed /\ ~isInitialized /\ lastOp.name = "render" /\ lastOp.threw

\* C3: one destroy() on an initialized renderer invokes each callback
\* subscribed to `destroy` exactly once.
C3_DestroyCallbackOnce ==
    (lastOp.name = "destroy" /\ trace[1].snap.isInitialized)
        => \A cb \in Range(trace[1].subs) : TimesInvoked(cb) = 1

\* C4: after destroy() returns, isInitialized is false, getContainer() is
\* null, getLayers() is empty and no subscription is left; a callback is
\* only ever invoked while it is subscribed, so none registered before the
\* destroy is invoked by a later call.
C4_DestroyLeavesNothing ==
    /\ [](lastOp.name = "destroy"
            => /\ ~isInitialized
               /\ container = NULL
               /\ getLayers(Registry) = <<>>
               /\ eventHandlers = NoHandlers)
    /\ [][\A i \in 1..Len(trace') :
             Range(trace'[i].invoked) \subseteq Range(eventHandlers[trace'[i].event])]_vars

C4_Witness ==
    /\ lastOp.name = "destroy"
    /\ trace[1].snap.isInitialized
    /\ trace[1].snap.layerIds # <<>>
    /\ trace[1].invoked # <<>>

\* C5: whenever a `destroy` callback runs during destroy(), nothing has been
\* torn down yet: the layers are still registered, the drawing surface is
\* still attached and the renderer is still initialized, as when destroy()
\* was called.
C5_DestroyCallbacksBeforeTeardown ==
    [][lastOp'.name = "destroy"
          => \A i \in 1..Len(trace') :
                trace'[i].invoked # <<>>
                   => trace'[i].snap = Snapshot(isInitialized, container, svg, Registry)]_vars

\* C6: getLayers() returns every registered layer exactly once, in
\* non-decreasing zIndex order, whatever addLayer and removeLayer calls
\* came before.
C6_GetLayersSorted ==
    /\ SortedByZ(getLayers(Registry))
    /\ EachOnce(Registry, getLayers(Registry))

C6_Witness ==
    /\ isInitialized
    /\ Len(Registry) = 3
    /\ Registry[1].zIndex > Registry[2].zIndex

\* C7: the renderer holds at most one layer per id, also after addLayer
\* was called again with an id that is already registered.
C7_OneLayerPerId ==
    \A id \in LayerIds :
        /\ Cardinality({i \in 1..Len(layers) : layers[i].id = id}) <= 1
        /\ Cardinality({i \in 1..Len(svgLayers) : svgLayers[i].id = id}) <= 1

C7_Witness ==
    /\ lastOp.name = "addLayer"
    /\ ~lastOp.threw
    /\ HasLayer(Registry, lastOp.id)
    /\ \E i \in 1..Len(surface) :
          surface[i].tag = "orphan" /\ surface[i].id = lastOp.id

\* C8: on the SVG renderer the layer group nodes under the root appear in
\* non-decreasing zIndex order after any sequence of addLayer and
\* removeLayer calls.
C8_GroupsInZOrder ==
    kind = "svg"
        => \A i, j \in 1..Len(surface) :
              (i < j /\ IsGroup(surface[i]) /\ IsGroup(surface[j]))
                 => GroupZ(surface[i]) <= GroupZ(surface[j])

C10_DispatchInRegistrationOrder ==
    [][/\ lastOp'.name = "on"
            => \A e \in Events : IsPrefix(eventHandlers[e], eventHandlers'[e])
       /\ \A i \in 1..Len(trace') :
             trace'[i].invoked = eventHandlers[trace'[i].event]]_vars

C10_Witness ==
    \E i \in 1..Len(trace) : trace[i].invoked = <<"g", "f">>


\* C11: init() with a null container or one that is not attached to the
\* document throws (an init that returns has stored an attached container),
\* and the throwing call changes nothing: isInitialized and the stored
\* container are as before -- false and null on an uninitialized renderer --
\* and no `init` event is emitted.
C11_InitRejectsBadContainer ==
    /\ []((lastOp.name = "init" /\ ~lastOp.threw)
             => (isInitialized /\ container \in AttachedContainers))
    /\ [][(lastOp'.name = "init" /\ lastOp'.threw)
             => /\ isInitialized' = isInitialized
                /\ container' = container
                /\ trace' = <<>>
                /\ ~isInitialized => (~isInitialized' /\ container' = NULL)]_vars

C11_Witness ==
    /\ lastOp.name = "init"
    /\ lastOp.threw
    /\ ~isInitialized
    /\ container = NULL
    /\ eventHandlers["init"] # <<>>

\* C12: removeLayer(id) never throws.  With an id that is not registered it
\* changes nothing and emits nothing; with a registered id the registry
\* afterwards holds every other layer, in the same order and unchanged, and
\* not that one, and `layerRemoved` is emitted exactly once, carrying the id.
C12_RemoveLayerExact ==
    [][lastOp'.name = "removeLayer"
          => LET id == lastOp'.id
             IN  /\ ~lastOp'.threw
                 /\ IF \E i \in 1..Len(Registry) : Registry[i].id = id
                    THEN /\ ~(\E i \in 1..Len(Registry') : Registry'[i].id = id)
                         /\ Registry' = SelectSeq(Registry, LAMBDA l : l.id # id)
                         /\ getLayers(Registry')
                               = SelectSeq(getLayers(Registry), LAMBDA l : l.id # id)
                         /\ Len(trace') = 1
                         /\ trace'[1].event = "layerRemoved"
                         /\ trace'[1].payload.layerId = id
                    ELSE /\ trace' = <<>>
                         /\ UNCHANGED <<isInitialized, container, config, layers,
                                        eventHandlers, svg, svgLayers, surface>>]_vars

C12_Witness ==
    /\ lastOp.name = "removeLayer"
    /\ trace # <<>>
    /\ Len(Registry) = 2
    /\ Registry[1].zIndex > Registry[2].zIndex

\* C13: clear() never throws, whether the renderer is initialized or not;
\* afterwards every registered layer has no content, the same layers are
\* registered (same ids, zIndexes, flags and order) and exactly one `clear`
\* event has been emitted.
C13_ClearKeepsLayers ==
    [][lastOp'.name = "clear"
          => /\ ~lastOp'.threw
             /\ Len(Registry') = Len(Registry)
             /\ \A i \in 1..Len(Registry) :
                   /\ Registry'[i].content = <<>>
                   /\ Registry'[i] = [Registry[i] EXCEPT !.content = <<>>]
             /\ Len(trace') = 1
             /\ trace'[1].event = "clear"
             /\ isInitialized' = isInitialized]_vars

C13_Witness ==
    /\ lastOp.name = "clear"
    /\ isInitialized
    /\ Registry # <<>>
    /\ \E i \in 1..Len(surface) : surface[i].tag = "elem"
    /\ trace[1].event = "clear"

\* The position attribute of the node at place p under the root.
XAt(surf, reg, p) ==
    IF p[2] = 0 THEN surf[p[1]].x ELSE GroupContent(reg, surf[p[1]])[p[2]].x

\* C14: after update(data, transition?) returns, every element of the data
\* that carries an id matching an existing node has given that node its
\* position, whether a transition was supplied or not.
C14_UpdateMutatesMatchedNode ==
    [][(lastOp'.name = "update" /\ ~lastOp'.threw)
          => LET data == trace'[1].payload.data
             IN  \A k \in 1..Len(data) :
                    (data[k].id # "" /\ Matches(surface, svgLayers, data[k].id) # {})
                       => XAt(surface', svgLayers',
                              FirstMatch(Matches(surface, svgLayers, data[k].id)))
                            = data[k].x]_vars

\* Which nodes exist: the children of the root and of every layer element,
\* without their position.
SceneShape(surf, reg) ==
    [root   |-> [i \in 1..Len(surf) |-> <<surf[i].tag, surf[i].id, surf[i].type>>],
     groups |-> [i \in 1..Len(surf) |->
                    [j \in 1..Len(GroupContent(reg, surf[i])) |->
                        <<GroupContent(reg, surf[i])[j].id,
                          GroupContent(reg, surf[i])[j].type>>]],
     layers |-> [i \in 1..Len(reg) |->
                    <<reg[i].id, [j \in 1..Len(reg[i].content) |->
                                    <<reg[i].content[j].id, reg[i].content[j].type>>]>>]]

\* C15: update() on an initialized renderer always returns normally and
\* emits exactly one `update` event; it creates and removes no node, and
\* when no element of the data carries an id that matches a node the scene
\* graph is exactly as before.
C15_UpdateNeverCreates ==
    [][(lastOp'.name = "update" /\ isInitialized)
          => /\ ~lastOp'.threw
             /\ Len(trace') = 1
             /\ trace'[1].event = "update"
             /\ SceneShape(surface', svgLayers') = SceneShape(surface, svgLayers)
             /\ LET data == trace'[1].payload.data
                IN  (\A k \in 1..Len(data) :
                        data[k].id = "" \/ Matches(surface, svgLayers, data[k].id) = {})
                       => (surface' = surface /\ svgLayers' = svgLayers)]_vars

LayerMethods == {"show", "hide", "setOpacity", "layer.clear"}

\* C16: show, hide, setOpacity and clear called on one layer leave every
\* other layer exactly as it was (visible flag, opacity, content), keep the
\* same layers registered in the same order, and change of the layer itself
\* only the field the method is about.
C16_LayerOpsTouchOneLayer ==
    [][lastOp'.name \in LayerMethods
          => /\ Len(Registry') = Len(Registry)
             /\ \A i \in 1..Len(Registry) :
                   /\ Registry'[i].id = Registry[i].id
                   /\ Registry'[i].zIndex = Registry[i].zIndex
                   /\ Registry[i].id # lastOp'.id => Registry'[i] = Registry[i]
                   /\ lastOp'.name \notin {"show", "hide"}
                         => Registry'[i].visible = Registry[i].visible
                   /\ lastOp'.name # "setOpacity"
                         => Registry'[i].opacity = Registry[i].opacity
                   /\ lastOp'.name # "layer.clear"
                         => Registry'[i].content = Registry[i].content
             /\ surface' = surface
             /\ trace' = <<>>]_vars

C16_Witness ==
    /\ lastOp.name = "hide"
    /\ Len(Registry) = 2
    /\ \E i, j \in 1..2 :
          /\ Registry[i].id = lastOp.id
          /\ ~Registry[i].visible
          /\ Registry[i].content # <<>>
          /\ Registry[j].id # lastOp.id
          /\ Registry[j].visible
          /\ Registry[j].content # <<>>
          /\ Registry[j].opacity = Num(1)

\* A number that lies in [0, 1].
InUnitInterval(n) == ~n.nan /\ Zero.val <= n.val /\ n.val <= One.val

\* C17: after setOpacity(v) the layer's opacity is v when v lies in [0,1],
\* 1 when v > 1 and 0 when v < 0, so the opacity of every layer always lies
\* in [0,1].
C17_OpacityClamped ==
    /\ [](\A i \in 1..Len(Registry) : InUnitInterval(Registry[i].opacity))
    /\ [][lastOp'.name = "setOpacity"
             => LET v == lastOp'.value
                    o == MapGet(Registry', lastOp'.id).opacity
                IN  /\ InUnitInterval(o)
                    /\ InUnitInterval(v) => o = v
                    /\ (~v.nan /\ v.val > One.val) => o = One
                    /\ (~v.nan /\ v.val < Zero.val) => o = Zero]_vars

\* The backend requested by the last construction was reported unavailable.
RequestedUnavailable ==
    /\ engine.status # "none"
    /\ engine.requestedType \in RendererTypes
    /\ ~IsRendererSupported(engine.requestedType, capabilities)

\* C18: constructing the engine with a specific backend and force set, when
\* that backend is reported unavailable, throws RendererNotSupportedError;
\* no engine with another backend comes out of it.
C18_ForceNeverFallsBack ==
    (RequestedUnavailable /\ engine.force)
        => /\ engine.status = "threw"
           /\ engine.error = "RendererNotSupportedError"
           /\ engine.type = ""
           /\ ~engine.fallbackUsed

C18_Witness ==
    /\ RequestedUnavailable
    /\ engine.force
    /\ engine.requestedType = "webgl"
    /\ capabilities.svg
    /\ engine.status = "threw"

\* C19: when the requested backend is reported unavailable and force is not
\* set, construction succeeds with the first available backend of the chain
\* (webgl -> canvas -> svg, canvas -> svg), svg at the end of it, and info
\* reports fallbackUsed = true and the requested backend as requestedType.
C19_FallbackAlongChain ==
    (RequestedUnavailable /\ ~engine.force)
        => /\ engine.status = "ok"
           /\ engine.fallbackUsed
           /\ engine.type = IF engine.requestedType = "webgl" /\ capabilities.canvas
                            THEN "canvas"
                            ELSE "svg"

\* C20: when the requested backend is reported available, construction
\* succeeds with exactly that backend: info.type is the request and
\* fallbackUsed is false.
C20_AvailableBackendSelected ==
    (/\ engine.status # "none"
     /\ engine.requestedType \in RendererTypes
     /\ IsRendererSupported(engine.requestedType, capabilities))
        => /\ engine.status = "ok"
           /\ engine.type = engine.requestedType
           /\ ~engine.fallbackUsed

\* ================================================================ charts
\* ------------------------------------------------------------- numbers
\* A JavaScript number as the arithmetic of the chart code sees it: an exact
\* fraction n/d in lowest terms, NaN, or an infinity (n is its sign).
\* Signed zeros are not distinguished.
RECURSIVE GCD(_, _)
GCD(a, b) == IF b = 0 THEN a ELSE GCD(b, a % b)

Abs(i) == IF i < 0 THEN -i ELSE i

Q(n, d) ==
    LET g == GCD(Abs(n), Abs(d))
        s == IF d < 0 THEN -1 ELSE 1
    IN  [k |-> "num", n |-> (s * n) \div g, d |-> (s * d) \div g]

QInt(i) == Q(i, 1)
QNaN == [k |-> "nan", n |-> 0, d |-> 1]
QInf(sign) == [k |-> "inf", n |-> sign, d |-> 1]

Sign(a) == IF a.n < 0 THEN -1 ELSE IF a.n > 0 THEN 1 ELSE 0

QNeg(a) == [a EXCEPT !.n = -a.n]

QAdd(a, b) ==
    IF a.k = "nan" \/ b.k = "nan" THEN QNaN
    ELSE IF a.k = "inf" /\ b.k = "inf"
         THEN IF a.n = b.n THEN a ELSE QNaN
    ELSE IF a.k = "inf" THEN a
    ELSE IF b.k = "inf" THEN b
    ELSE Q(a.n * b.d + b.n * a.d, a.d * b.d)

QSub(a, b) == QAdd(a, QNeg(b))

QMul(a, b) ==
    IF a.k = "nan" \/ b.k = "nan" THEN QNaN
    ELSE IF a.k = "inf" \/ b.k = "inf"
         THEN IF Sign(a) = 0 \/ Sign(b) = 0 THEN QNaN
              ELSE QInf(Sign(a) * Sign(b))
    ELSE Q(a.n * b.n, a.d * b.d)

QDiv(a, b) ==
    IF a.k = "nan" \/ b.k = "nan" THEN QNaN
    ELSE IF a.k = "inf"
         THEN IF b.k = "inf" THEN QNaN
              ELSE QInf(IF Sign(b) < 0 THEN -a.n ELSE a.n)
    ELSE IF b.k = "inf" THEN QInt(0)
    ELSE IF b.n = 0
         THEN IF a.n = 0 THEN QNaN ELSE QInf(Sign(a))
    ELSE Q(a.n * b.d, a.d * b.n)

\* a <= b, which is false when either side is NaN.
QLe(a, b) ==
    /\ a.k # "nan" /\ b.k # "nan"
    /\ IF a.k = "inf" /\ b.k = "inf" THEN a.n <= b.n
       ELSE IF a.k = "inf" THEN a.n < 0
       ELSE IF b.k = "inf" THEN b.n > 0
       ELSE a.n * b.d <= b.n * a.d

QAbs(a) == IF a.n < 0 THEN QNeg(a) ELSE a

IsNaN(a) == a.k = "nan"

\* ---------------------------------------------------------- PitchScale
MaxScales == 3

Orientations == {"horizontal", "vertical"}
Hundred == QInt(100)

\* `{ ...a, ...b }`, and a destructuring default.
Spread(a, b) ==
    [f \in DOMAIN a \cup DOMAIN b |-> IF f \in DOMAIN b THEN b[f] ELSE a[f]]
OrDefault(o, f, default) == IF f \in DOMAIN o THEN o[f] ELSE default

DEFAULT_PADDING ==
    [top |-> QInt(0), right |-> QInt(0), bottom |-> QInt(0), left |-> QInt(0)]
FIFA_STANDARD_DIMENSIONS == [width |-> QInt(105), height |-> QInt(68)]

\* new PitchScale(config): the frozen private fields of the instance.
PitchScale(cfg) ==
    [dimensions  |-> [width  |-> OrDefault(cfg, "width", FIFA_STANDARD_DIMENSIONS.width),
                      height |-> OrDefault(cfg, "height", FIFA_STANDARD_DIMENSIONS.height)],
     padding     |-> Spread(DEFAULT_PADDING, OrDefault(cfg, "padding", <<>>)),
     orientation |-> OrDefault(cfg, "orientation", "horizontal")]

Pt(x, y) == [x |-> x, y |-> y]

toPixel(this, point) ==
    LET baseX == QMul(QDiv(point.x, Hundred), this.dimensions.width)
        baseY == QMul(QDiv(point.y, Hundred), this.dimensions.height)
    IN  Pt(QAdd(baseX, this.padding.left), QAdd(baseY, this.padding.top))

toNormalized_NoPadding(this, pixel) ==
    Pt(QMul(QDiv(pixel.x, this.dimensions.width), Hundred),
       QMul(QDiv(pixel.y, this.dimensions.height), Hundred))

toNormalized(this, pixel) ==
    LET baseX == QSub(pixel.x, this.padding.left)
        baseY == QSub(pixel.y, this.padding.top)
    IN  Pt(QMul(QDiv(baseX, this.dimensions.width), Hundred),
           QMul(QDiv(baseY, this.dimensions.height), Hundred))

withPadding(this, padding) ==
    PitchScale([width       |-> this.dimensions.width,
                height      |-> this.dimensions.height,
                orientation |-> this.orientation,
                padding     |-> Spread(this.padding, padding)])

withDimensions(this, dimensions) ==
    PitchScale([width       |-> OrDefault(dimensions, "width", this.dimensions.width),
                height      |-> OrDefault(dimensions, "height", this.dimensions.height),
                orientation |-> this.orientation,
                padding     |-> this.padding])

withOrientation(this, orientation) ==
    PitchScale([width       |-> this.dimensions.width,
                height      |-> this.dimensions.height,
                orientation |-> orientation,
                padding     |-> this.padding])

\* The renderer's state, which no scale or geometry call touches.
renderer == <<kind, isInitialized, container, config, layers, eventHandlers,
              svg, svgLayers, surface, destroyed, lastOp, trace,
              capabilities, engine>>

ScaleConfigs ==
    {<<>>,
     [width |-> QInt(0)],
     [height |-> QInt(0), orientation |-> "vertical"],
     [width |-> QInt(-105), padding |-> [left |-> QInt(15)]],
     [width |-> QInt(120), height |-> QInt(75), orientation |-> "vertical",
      padding |-> [top |-> QInt(10), right |-> QInt(15),
                   bottom |-> QInt(10), left |-> QInt(15)]]}

Points == {Pt(QInt(0), QInt(0)), Pt(QInt(50), QInt(50)), Pt(QInt(100), QInt(25))}
PixelInputs == {Pt(Q(105, 2), QInt(34))}
PaddingInputs == {[top |-> QInt(10), left |-> QInt(10)], [right |-> QInt(5)]}
DimensionInputs == {[width |-> QInt(0)], [height |-> QInt(75)]}

\* The instance a `new PitchScale(...)` expression yields is a fresh object.
Allocate_OverReceiver(heap, self, instance) == [heap EXCEPT ![self] = instance]
Allocate(heap, self, instance) == Append(heap, instance)

NewPitchScale(cfg) ==
    /\ Len(scales) < MaxScales
    /\ scales' = Append(scales, PitchScale(cfg))
    /\ calc' = [op |-> "new", self |-> Len(scales'), result |-> Len(scales')]
    /\ UNCHANGED <<renderer, geometry, pitch, shotMap>>

ToPixel(self, point) ==
    /\ self \in DOMAIN scales
    /\ calc' = [op |-> "toPixel", self |-> self, arg |-> point,
                out |-> toPixel(scales[self], point)]
    /\ UNCHANGED <<renderer, scales, geometry, pitch, shotMap>>

\* `from` remembers the point whose pixel position is being converted back.
ToNormalized(self, pixel) ==
    /\ self \in DOMAIN scales
    /\ calc' = [op |-> "toNormalized", self |-> self, arg |-> pixel,
                out |-> toNormalized(scales[self], pixel),
                from |-> IF calc.op = "toPixel" /\ calc.self = self /\ calc.out = pixel
                         THEN <<calc.arg>> ELSE <<>>]
    /\ UNCHANGED <<renderer, scales, geometry, pitch, shotMap>>

With(name, self, instance) ==
    /\ self \in DOMAIN scales
    /\ Len(scales) < MaxScales
    /\ scales' = Allocate(scales, self, instance)
    /\ calc' = [op |-> name, self |-> self, result |-> Len(scales')]
    /\ UNCHANGED <<renderer, geometry, pitch, shotMap>>

WithPadding(self, padding) ==
    self \in DOMAIN scales /\ With("withPadding", self, withPadding(scales[self], padding))

WithDimensions(self, dimensions) ==
    self \in DOMAIN scales /\ With("withDimensions", self, withDimensions(scales[self], dimensions))

WithOrientation(self, orientation) ==
    self \in DOMAIN scales /\ With("withOrientation", self, withOrientation(scales[self], orientation))

InitCharts ==
    /\ kind = "svg"
    /\ FreshRenderer
    /\ capabilities = AllSupported
    /\ engine = NoEngine
    /\ NoCharts

Receivers == 1..(MaxScales + 1)

\* One constructed scale and the scales derived from it.
NextScale ==
    \/ \E cfg \in ScaleConfigs : scales = <<>> /\ NewPitchScale(cfg)
    \/ \E self \in Receivers, point \in Points : ToPixel(self, point)
    \/ \E self \in Receivers :
          \E pixel \in PixelInputs \cup (IF calc.op = "toPixel" THEN {calc.out} ELSE {}) :
             ToNormalized(self, pixel)
    \/ \E self \in Receivers, padding \in PaddingInputs : WithPadding(self, padding)
    \/ \E self \in Receivers, dimensions \in DimensionInputs : WithDimensions(self, dimensions)
    \/ \E self \in Receivers, orientation \in Orientations : WithOrientation(self, orientation)

SpecScale == InitCharts /\ [][NextScale]_vars

\* ------------------------------------------------------ claims: PitchScale
\* |a - b| <= 1e-5 * max(1, |b|)
WithinTolerance(a, b) ==
    QLe(QAbs(QSub(a, b)),
        QMul(Q(1, 100000), IF QLe(QInt(1), QAbs(b)) THEN QAbs(b) ELSE QInt(1)))

RoundTrip ==
    calc.op = "toNormalized" /\ calc.from # <<>>

RoundTripExact ==
    /\ WithinTolerance(calc.out.x, calc.from[1].x)
    /\ WithinTolerance(calc.out.y, calc.from[1].y)

NonZeroDimensions(this) ==
    this.dimensions.width # QInt(0) /\ this.dimensions.height # QInt(0)

WithMethods == {"withPadding", "withDimensions", "withOrientation"}

\* C22: withPadding, withDimensions and withOrientation each return an
\* instance that did not exist before, and every existing instance, the
\* receiver included, keeps its dimensions, padding and orientation.
C22_WithReturnsNewInstance ==
    [][(calc'.op \in WithMethods /\ <<scales, calc>>' # <<scales, calc>>) =>
          /\ calc'.result \notin DOMAIN scales
          /\ calc'.result \in DOMAIN scales'
          /\ \A i \in DOMAIN scales : scales'[i] = scales[i]]_vars

\* A derived scale is the receiver, and the result differs from it.
C22_Witness ==
    /\ calc.op \in WithMethods
    /\ calc.self = 2
    /\ calc.result = 3
    /\ scales[3] # scales[2]
    /\ scales[2] # scales[1]

\* -------------------------------------------------------- PitchGeometry
\* An angle in radians, kept symbolically as pi * Math.PI + alpha * acos(ratio),
\* or NaN.
Angle(pi, alpha, ratio) == [nan |-> FALSE, pi |-> pi, alpha |-> alpha, ratio |-> ratio]
AngleNaN == [nan |-> TRUE, pi |-> QInt(0), alpha |-> 0, ratio |-> QInt(0)]
PI == Angle(QInt(1), 0, QInt(0))
HalfPI == Angle(Q(1, 2), 0, QInt(0))

\* Math.acos: NaN outside [-1, 1].
acos(q) ==
    IF ~(QLe(QInt(-1), q) /\ QLe(q, QInt(1))) THEN AngleNaN
    ELSE IF q = QInt(1) THEN Angle(QInt(0), 0, QInt(0))
    ELSE IF q = QInt(0) THEN HalfPI
    ELSE IF q = QInt(-1) THEN PI
    ELSE Angle(QInt(0), 1, q)

AngleNeg(a) ==
    IF a.nan THEN AngleNaN ELSE Angle(QNeg(a.pi), -a.alpha, a.ratio)

\* The sums the code forms are of multiples of one acos value and of pi.
AngleAdd(a, b) ==
    IF a.nan \/ b.nan THEN AngleNaN
    ELSE LET alpha == a.alpha + b.alpha
         IN  Angle(QAdd(a.pi, b.pi), alpha,
                   IF alpha = 0 THEN QInt(0)
                   ELSE IF a.alpha # 0 THEN a.ratio ELSE b.ratio)

FIFA_DIMENSIONS == [width |-> QInt(105), height |-> QInt(68)]
PENALTY_AREA == [width |-> Q(165, 10), height |-> Q(4032, 100)]
GOAL_AREA == [width |-> Q(55, 10), height |-> Q(1832, 100)]
CENTER_CIRCLE_RADIUS == Q(915, 100)
PENALTY_SPOT_DISTANCE == QInt(11)
SpotRadius == Q(4, 10)

Sides == {"left", "right"}
Suffix(side) == IF side = "left" THEN "Left" ELSE "Right"

\* new PitchGeometry(dimensions, orientation)
PitchGeometry(dimensions, orientation) ==
    [dimensions |-> dimensions, orientation |-> orientation]

normalizeX(this, val) == QMul(QDiv(val, this.dimensions.width), Hundred)
normalizeY(this, val) == QMul(QDiv(val, this.dimensions.height), Hundred)

transform_KeepsArcAngles(this, geo) ==
    IF this.orientation = "horizontal" THEN geo
    ELSE IF geo.type = "rect"
         THEN [geo EXCEPT !.x = geo.y, !.y = geo.x,
                          !.width = geo.height, !.height = geo.width]
    ELSE IF geo.type = "circle"
         THEN [geo EXCEPT !.cx = geo.cy, !.cy = geo.cx]
    ELSE IF geo.type = "line"
         THEN [geo EXCEPT !.x1 = geo.y1, !.y1 = geo.x1,
                          !.x2 = geo.y2, !.y2 = geo.x2]
    ELSE [geo EXCEPT !.cx = geo.cy, !.cy = geo.cx]

transform(this, geo) ==
    IF this.orientation = "horizontal" THEN geo
    ELSE IF geo.type = "rect"
         THEN [geo EXCEPT !.x = geo.y, !.y = geo.x,
                          !.width = geo.height, !.height = geo.width]
    ELSE IF geo.type = "circle"
         THEN [geo EXCEPT !.cx = geo.cy, !.cy = geo.cx]
    ELSE IF geo.type = "line"
         THEN [geo EXCEPT !.x1 = geo.y1, !.y1 = geo.x1,
                          !.x2 = geo.y2, !.y2 = geo.x2]
    ELSE IF geo.type = "arc"
         THEN [geo EXCEPT !.cx = geo.cy, !.cy = geo.cx,
                          !.startAngle = AngleAdd(geo.startAngle, HalfPI),
                          !.endAngle = AngleAdd(geo.endAngle, HalfPI)]
    ELSE geo

getOutline(this) ==
    transform(this, [id |-> "outline", type |-> "rect",
                     x |-> QInt(0), y |-> QInt(0),
                     width |-> Hundred, height |-> Hundred])

getCenterLine(this) ==
    transform(this, [id |-> "centerLine", type |-> "line",
                     x1 |-> QInt(50), y1 |-> QInt(0),
                     x2 |-> QInt(50), y2 |-> Hundred])

getCenterCircle(this) ==
    transform(this, [id |-> "centerCircle", type |-> "circle",
                     cx |-> QInt(50), cy |-> QInt(50),
                     r |-> normalizeX(this, CENTER_CIRCLE_RADIUS)])

Box(this, name, area, side) ==
    LET w == normalizeX(this, area.width)
        h == normalizeY(this, area.height)
        y == QDiv(QSub(Hundred, h), QInt(2))
        x == IF side = "left" THEN QInt(0) ELSE QSub(Hundred, w)
    IN  transform(this, [id |-> name, type |-> "rect",
                         x |-> x, y |-> y, width |-> w, height |-> h])

getPenaltyArea(this, side) == Box(this, "penaltyArea" \o Suffix(side), PENALTY_AREA, side)

getGoalArea(this, side) == Box(this, "goalArea" \o Suffix(side), GOAL_AREA, side)

getPenaltySpot(this, side) ==
    LET dist == normalizeX(this, PENALTY_SPOT_DISTANCE)
        x    == IF side = "left" THEN dist ELSE QSub(Hundred, dist)
    IN  transform(this, [id |-> "penaltySpot" \o Suffix(side), type |-> "circle",
                         cx |-> x, cy |-> QInt(50), r |-> SpotRadius])

getCenterSpot(this) ==
    transform(this, [id |-> "centerSpot", type |-> "circle",
                     cx |-> QInt(50), cy |-> QInt(50), r |-> SpotRadius])

\* The radius the half-angle is taken against: metres, not the normalized r.
ArcRadius_Normalized(this) == normalizeX(this, CENTER_CIRCLE_RADIUS)
ArcRadius(this) == CENTER_CIRCLE_RADIUS

getPenaltyArc(this, side) ==
    LET r     == normalizeX(this, CENTER_CIRCLE_RADIUS)
        spotX == IF side = "left" THEN PENALTY_SPOT_DISTANCE
                 ELSE QSub(this.dimensions.width, PENALTY_SPOT_DISTANCE)
        areaX == IF side = "left" THEN PENALTY_AREA.width
                 ELSE QSub(this.dimensions.width, PENALTY_AREA.width)
        dist  == QAbs(QSub(areaX, spotX))
        angle == acos(QDiv(dist, ArcRadius(this)))
        cx    == IF side = "left" THEN normalizeX(this, PENALTY_SPOT_DISTANCE)
                 ELSE QSub(Hundred, normalizeX(this, PENALTY_SPOT_DISTANCE))
    IN  transform(this, [id |-> "penaltyArc" \o Suffix(side), type |-> "arc",
                         cx |-> cx, cy |-> QInt(50), r |-> r,
                         startAngle |-> IF side = "left" THEN AngleNeg(angle)
                                        ELSE AngleAdd(PI, AngleNeg(angle)),
                         endAngle   |-> IF side = "left" THEN angle
                                        ELSE AngleAdd(PI, angle)])

getAllGeometries(this) ==
    <<getOutline(this),
      getPenaltyArea(this, "left"), getPenaltyArea(this, "right"),
      getGoalArea(this, "left"), getGoalArea(this, "right"),
      getCenterCircle(this),
      getPenaltyArc(this, "left"), getPenaltyArc(this, "right"),
      getCenterLine(this), getCenterSpot(this),
      getPenaltySpot(this, "left"), getPenaltySpot(this, "right")>>

\* createPitchConfig(config): the dimensions and orientation of the result,
\* or the rejection of dimensions that are too small.
Lt(a, b) == a.k # "nan" /\ b.k # "nan" /\ ~QLe(b, a)

createPitchConfig(cfg) ==
    LET dimensions == Spread(FIFA_DIMENSIONS, OrDefault(cfg, "dimensions", <<>>))
    IN  IF Lt(dimensions.width, QInt(50)) \/ Lt(dimensions.height, QInt(30))
        THEN [threw |-> TRUE, dimensions |-> dimensions, orientation |-> "horizontal"]
        ELSE [threw |-> FALSE, dimensions |-> dimensions,
              orientation |-> OrDefault(cfg, "orientation", "horizontal")]

NoMarking == [type |-> "none"]

GeometryDimensions ==
    {[width |-> QInt(w), height |-> QInt(h)] : w \in {105, 200, 10, 0, -105}, h \in {68, 30, 0}}

PitchConfigs ==
    {<<>>,
     [orientation |-> "vertical"],
     [dimensions |-> [width |-> QInt(120), height |-> QInt(75)]],
     [dimensions |-> [width |-> QInt(50), height |-> QInt(30)], orientation |-> "vertical"],
     [dimensions |-> [height |-> QInt(40)]],
     [dimensions |-> [width |-> QInt(49)]],
     [dimensions |-> [height |-> QInt(29)], orientation |-> "vertical"]}

Constructed(instance, accepted) ==
    [constructed |-> TRUE, threw |-> FALSE, this |-> instance, accepted |-> accepted,
     method |-> "new", side |-> "", out |-> NoMarking]

NewPitchGeometry(dimensions, orientation) ==
    /\ geometry' = Constructed(PitchGeometry(dimensions, orientation), FALSE)
    /\ UNCHANGED <<renderer, scales, calc, pitch, shotMap>>

\* The geometry a Pitch builds: createPitchConfig(config), then
\* new PitchGeometry(config.dimensions, config.orientation).
ConfiguredGeometry(cfg) ==
    /\ LET c == createPitchConfig(cfg)
       IN  geometry' = IF c.threw THEN [constructed |-> FALSE, threw |-> TRUE]
                       ELSE Constructed(PitchGeometry(c.dimensions, c.orientation), TRUE)
    /\ UNCHANGED <<renderer, scales, calc, pitch, shotMap>>

Returns(method, side, marking) ==
    /\ geometry.constructed
    /\ geometry' = [geometry EXCEPT !.method = method, !.side = side, !.out = marking]
    /\ UNCHANGED <<renderer, scales, calc, pitch, shotMap>>

GetOutline == geometry.constructed /\ Returns("getOutline", "", getOutline(geometry.this))
GetCenterLine == geometry.constructed /\ Returns("getCenterLine", "", getCenterLine(geometry.this))
GetCenterCircle == geometry.constructed /\ Returns("getCenterCircle", "", getCenterCircle(geometry.this))
GetCenterSpot == geometry.constructed /\ Returns("getCenterSpot", "", getCenterSpot(geometry.this))
GetPenaltyArea(side) ==
    geometry.constructed /\ Returns("getPenaltyArea", side, getPenaltyArea(geometry.this, side))
GetGoalArea(side) ==
    geometry.constructed /\ Returns("getGoalArea", side, getGoalArea(geometry.this, side))
GetPenaltySpot(side) ==
    geometry.constructed /\ Returns("getPenaltySpot", side, getPenaltySpot(geometry.this, side))
GetPenaltyArc(side) ==
    geometry.constructed /\ Returns("getPenaltyArc", side, getPenaltyArc(geometry.this, side))

NextGeometry ==
    \/ \E d \in GeometryDimensions, o \in Orientations : NewPitchGeometry(d, o)
    \/ \E cfg \in PitchConfigs : ConfiguredGeometry(cfg)
    \/ GetOutline
    \/ GetCenterLine
    \/ GetCenterCircle
    \/ GetCenterSpot
    \/ \E side \in Sides : GetPenaltyArea(side)
    \/ \E side \in Sides : GetGoalArea(side)
    \/ \E side \in Sides : GetPenaltySpot(side)
    \/ \E side \in Sides : GetPenaltyArc(side)

SpecGeometry == InitCharts /\ [][NextGeometry]_vars

\* --------------------------------------------------- claims: PitchGeometry
Returned == geometry.constructed /\ geometry.out # NoMarking

\* What the same method returns for the same dimensions laid out horizontally.
HorizontalMarking ==
    LET h == PitchGeometry(geometry.this.dimensions, "horizontal")
        m == geometry.method
        s == geometry.side
    IN  CASE m = "getOutline"      -> getOutline(h)
          [] m = "getCenterLine"   -> getCenterLine(h)
          [] m = "getCenterCircle" -> getCenterCircle(h)
          [] m = "getCenterSpot"   -> getCenterSpot(h)
          [] m = "getPenaltyArea"  -> getPenaltyArea(h, s)
          [] m = "getGoalArea"     -> getGoalArea(h, s)
          [] m = "getPenaltySpot"  -> getPenaltySpot(h, s)
          [] m = "getPenaltyArc"   -> getPenaltyArc(h, s)

AxesSwapped(g) ==
    CASE g.type = "rect" ->
            [id |-> g.id, type |-> "rect", x |-> g.y, y |-> g.x,
             width |-> g.height, height |-> g.width]
      [] g.type = "line" ->
            [id |-> g.id, type |-> "line", x1 |-> g.y1, y1 |-> g.x1,
             x2 |-> g.y2, y2 |-> g.x2]
      [] g.type = "circle" ->
            [id |-> g.id, type |-> "circle", cx |-> g.cy, cy |-> g.cx, r |-> g.r]
      [] g.type = "arc" ->
            [id |-> g.id, type |-> "arc", cx |-> g.cy, cy |-> g.cx, r |-> g.r,
             startAngle |-> AngleAdd(g.startAngle, HalfPI),
             endAngle   |-> AngleAdd(g.endAngle, HalfPI)]

\* C23: for any dimensions a marking generated with orientation 'vertical' is
\* the 'horizontal' marking with its axes swapped (rect: x<->y, width<->height;
\* line endpoints, circle and arc centres: x<->y), arcs with pi/2 added to both
\* angles, for every method of the generator.
C23_VerticalIsHorizontalSwapped ==
    (Returned /\ geometry.this.orientation = "vertical") =>
        geometry.out = AxesSwapped(HorizontalMarking)

\* A vertical penalty arc on a non-standard field, whose centre and angles moved.
C23_Witness ==
    /\ Returned
    /\ geometry.this.orientation = "vertical"
    /\ geometry.this.dimensions.width = QInt(200)
    /\ geometry.method = "getPenaltyArc"
    /\ geometry.side = "right"
    /\ geometry.out.cx = QInt(50)
    /\ geometry.out.cy # QInt(50)
    /\ geometry.out.startAngle # HorizontalMarking.startAngle

InRange(q) == QLe(QInt(0), q) /\ QLe(q, Hundred)

InsideField(g) ==
    CASE g.type = "rect" ->
            /\ InRange(g.x) /\ InRange(g.y)
            /\ InRange(QAdd(g.x, g.width)) /\ InRange(QAdd(g.y, g.height))
      [] g.type = "line" ->
            InRange(g.x1) /\ InRange(g.y1) /\ InRange(g.x2) /\ InRange(g.y2)
      [] OTHER -> InRange(g.cx) /\ InRange(g.cy)

\* C24: for the dimensions the pitch configuration accepts, every coordinate
\* of every marking lies in [0,100]; a rectangle has x >= 0, y >= 0,
\* x + width <= 100 and y + height <= 100.
C24_MarkingsInsideField ==
    (Returned /\ geometry.accepted) => InsideField(geometry.out)

Symmetric(a, b) == a = AngleNeg(b)

Renderer ==
    [isInitialized |-> isInitialized, container |-> container, config |-> config,
     svg |-> svg, svgLayers |-> svgLayers, surface |-> surface,
     destroyed |-> destroyed, threw |-> FALSE]

Threw(r) == [r EXCEPT !.threw = TRUE]

\* renderer.init(container, config)
CallInit(r, c, cfg) ==
    IF r.threw THEN r
    ELSE IF InvalidContainer(c) THEN Threw(r)
    ELSE [r EXCEPT !.container = c, !.config = cfg, !.svg = "svg",
                   !.svgLayers = SvgRootLayers(r.svgLayers), !.surface = <<>>,
                   !.isInitialized = TRUE]

\* renderer.getLayer(id) is not null
CallGetLayer(r, id) == HasLayer(r.svgLayers, id)

\* renderer.addLayer(id, zIndex)
CallAddLayer(r, id, zIndex) ==
    IF r.threw THEN r
    ELSE IF r.svg = NULL THEN Threw(r)
    ELSE LET reg   == MapSet(r.svgLayers, id, NewLayer(id, zIndex, FALSE))
             surf  == IF HasLayer(r.svgLayers, id) /\ MapGet(r.svgLayers, id).inRoot
                      THEN Abandon(r.surface, MapGet(r.svgLayers, id))
                      ELSE r.surface
             above == Above(reg, id, zIndex)
         IN  IF above # <<>> /\ ~above[1].inRoot
             THEN [r EXCEPT !.svgLayers = reg, !.surface = surf, !.threw = TRUE]
             ELSE [r EXCEPT !.svgLayers = MapSet(reg, id, NewLayer(id, zIndex, TRUE)),
                            !.surface =
                                IF above # <<>>
                                THEN InsertAt(surf, LayerNodeIndex(surf, above[1].id),
                                              LayerNode(id))
                                ELSE Append(surf, LayerNode(id))]

\* renderer.removeLayer(id)
CallRemoveLayer(r, id) ==
    IF r.threw \/ ~HasLayer(r.svgLayers, id) THEN r
    ELSE [r EXCEPT !.svgLayers = MapDelete(r.svgLayers, id),
                   !.surface = IF MapGet(r.svgLayers, id).inRoot
                               THEN RemoveAt(r.surface, LayerNodeIndex(r.surface, id))
                               ELSE r.surface]

\* The nodes appended to the root when no layer is resolved.
RootNodes(nodes) == [i \in 1..Len(nodes) |-> ElemNode(nodes[i])]

\* renderer.render(data, { layer, clear })
CallRender(r, data, layer, clear) ==
    IF r.threw THEN r
    ELSE IF NotReady(r.svg, r.isInitialized) THEN Threw(r)
    ELSE IF HasLayer(r.svgLayers, layer)
         THEN LET target  == MapGet(r.svgLayers, layer)
                  cleared == IF clear THEN LayerClear(target) ELSE target
              IN  [r EXCEPT !.svgLayers =
                      MapSet(r.svgLayers, layer,
                             [cleared EXCEPT !.content = @ \o CreatedNodes(data)])]
         ELSE [r EXCEPT !.surface = @ \o RootNodes(CreatedNodes(data))]

\* renderer.destroy()
CallDestroy(r) ==
    IF r.threw THEN r
    ELSE [r EXCEPT !.svgLayers = <<>>, !.svg = NULL, !.surface = <<>>,
                   !.container = ResetState.container, !.config = ResetState.config,
                   !.isInitialized = ResetState.isInitialized, !.destroyed = TRUE]

\* The renderer after the calls of the chart method `name`.
Commit(r, name) ==
    /\ isInitialized' = r.isInitialized
    /\ container' = r.container
    /\ config' = r.config
    /\ svg' = r.svg
    /\ svgLayers' = r.svgLayers
    /\ surface' = r.surface
    /\ destroyed' = r.destroyed
    /\ lastOp' = Op(name, r.threw, "", 0)
    /\ trace' = <<>>
    /\ UNCHANGED <<kind, layers, eventHandlers, capabilities, engine,
                   scales, calc, geometry>>

\* ------------------------------------------------------- Pitch, ShotMap
MaxStray == 1     \* rendered nodes directly under the root

Undefined == "undefined"

\* Shots of two teams; the third has no player.
Shot1 == [id |-> "s1", position |-> Pt(QInt(50), QInt(50)),
          team |-> [id |-> "t1"], player |-> [id |-> "p1"]]
Shot2 == [id |-> "s2", position |-> Pt(QInt(90), QInt(40)),
          team |-> [id |-> "t2"], player |-> [id |-> "p2"]]
Shot3 == [id |-> "s3", position |-> Pt(QInt(80), QInt(60)), team |-> [id |-> "t1"]]

ShotData == {<<>>, <<Shot2>>, <<Shot1, Shot2, Shot3>>}
ShotFilters == {<<>>, [teamId |-> "t1"], [teamId |-> Undefined], [playerId |-> "p1"]}
ShotIds == {"s1"}

LIGHT_THEME == [name |-> "light", grass |-> "#567d46", lines |-> "#ffffff"]
DARK_THEME == [name |-> "dark", grass |-> "#1a1a1a", lines |-> "#444444"]
ThemeInputs == {"dark", "light"}

PitchOptions == {<<>>, [orientation |-> "vertical"],
                 [dimensions |-> [width |-> QInt(40)]]}

\* shot.player?.id
PlayerId(shot) == IF "player" \in DOMAIN shot THEN shot.player.id ELSE Undefined

\* ShotMap.getFilteredData
Keeps(filter, shot) ==
    /\ OrDefault(filter, "teamId", Undefined) # Undefined
          => shot.team.id = filter.teamId
    /\ OrDefault(filter, "playerId", Undefined) # Undefined
          => PlayerId(shot) = filter.playerId

getFilteredData(sm) == SelectSeq(sm.data, LAMBDA shot : Keeps(sm.config.filter, shot))

\* ShotMap.buildRenderElements: one circle per shot, dimmed when another shot
\* is highlighted.  `shot` is the data-shot-id attribute.
ShotCircle(sm, shot) ==
    [type |-> "circle", id |-> "", x |-> toPixel(sm.scale, shot.position).x,
     y |-> toPixel(sm.scale, shot.position).y, shot |-> shot.id,
     opacity |-> IF sm.highlightedShotId # "" /\ shot.id # sm.highlightedShotId
                 THEN "0.3" ELSE "1"]

buildRenderElements(sm, shots) == [i \in 1..Len(shots) |-> ShotCircle(sm, shots[i])]

\* A draw that appends to what the layer holds.
draw_NoClear(r, sm) ==
    IF ~sm.attached THEN r
    ELSE CallRender(r, buildRenderElements(sm, getFilteredData(sm)), "shotmap", FALSE)

\* ShotMap.draw
draw(r, sm) ==
    IF ~sm.attached THEN r
    ELSE CallRender(r, buildRenderElements(sm, getFilteredData(sm)), "shotmap", TRUE)

\* ShotMap.render(renderer, scale): the renderer and the shot map afterwards.
ShotMapRender(r, sm, scale) ==
    IF r.threw THEN [r |-> r, sm |-> sm]
    ELSE LET sm1 == [sm EXCEPT !.attached = TRUE, !.scale = scale]
             r1  == IF CallGetLayer(r, "shotmap") THEN r
                    ELSE CallAddLayer(r, "shotmap", 50)
         IN  [r |-> draw(r1, sm1), sm |-> sm1]

\* Pitch.buildRenderElements: one element per marking, styled by the theme.
MarkingElement(p, geo) ==
    LET isVertical == p.config.orientation = "vertical"
        sx == QDiv(IF isVertical THEN p.config.dimensions.height
                   ELSE p.config.dimensions.width, Hundred)
    IN  [type   |-> IF geo.type = "arc" THEN "path" ELSE geo.type,
         id     |-> geo.id,
         x      |-> IF geo.type = "rect" THEN QMul(geo.x, sx)
                    ELSE IF geo.type = "circle" THEN QMul(geo.cx, sx)
                    ELSE QInt(0),
         fill   |-> IF geo.id = "outline" THEN p.config.theme.grass ELSE "none",
         stroke |-> p.config.theme.lines]

MarkingElements(p, geometries) ==
    [i \in 1..Len(geometries) |-> MarkingElement(p, geometries[i])]

PitchElements(p) == MarkingElements(p, getAllGeometries(p.geometry))

\* Pitch.renderGeometries
renderGeometries(p, r) == CallRender(r, PitchElements(p), "pitch", TRUE)

\* Pitch.render with the pitch fields p
render(p, r, sm) ==
    IF p.isDestroyed THEN [r |-> Threw(r), sm |-> sm]
    ELSE LET r1 == renderGeometries(p, r)
         IN  IF "shotmap" \in Range(p.visualizations)
             THEN ShotMapRender(r1, sm, p.scale)
             ELSE [r |-> r1, sm |-> sm]

Stray(surf) == Cardinality({i \in 1..Len(surf) : surf[i].tag = "elem"})

\* The state after a chart method.
Done(name, p, r, sm) ==
    /\ Stray(r.surface) <= MaxStray
    /\ pitch' = p
    /\ shotMap' = sm
    /\ Commit(r, name)

\* new Pitch(config)
NewPitch(c, options) ==
    /\ ~pitch.constructed
    /\ LET cfg == createPitchConfig(options)
           r   == CallAddLayer(
                     CallInit(Renderer, c,
                              [width |-> cfg.dimensions.width,
                               height |-> cfg.dimensions.height]),
                     "pitch", 0)
       IN  IF c = NULL \/ cfg.threw \/ r.threw
           THEN Done("new Pitch", pitch, Threw(Renderer), shotMap)
           ELSE Done("new Pitch",
                     [constructed    |-> TRUE,
                      isDestroyed    |-> FALSE,
                      config         |-> [dimensions  |-> cfg.dimensions,
                                          orientation |-> cfg.orientation,
                                          theme       |-> LIGHT_THEME],
                      geometry       |-> PitchGeometry(cfg.dimensions, cfg.orientation),
                      scale          |-> PitchScale([width  |-> cfg.dimensions.width,
                                                     height |-> cfg.dimensions.height]),
                      visualizations |-> <<>>],
                     r, shotMap)

\* new ShotMap({ data, filter })
NewShotMap(data, filter) ==
    /\ ~shotMap.constructed
    /\ Done("new ShotMap", pitch, Renderer,
            [constructed |-> TRUE, attached |-> FALSE, destroyed |-> FALSE,
             data |-> data, config |-> [filter |-> Spread(<<>>, filter)],
             highlightedShotId |-> "", scale |-> PitchScale(<<>>)])

\* pitch.render()
PitchRender ==
    /\ pitch.constructed
    /\ LET res == render(pitch, Renderer, shotMap)
       IN  Done("render", pitch, res.r, res.sm)

\* pitch.setTheme(theme)
SetTheme(theme) ==
    /\ pitch.constructed
    /\ LET p == [pitch EXCEPT !.config.theme =
                    IF theme = "dark" THEN DARK_THEME ELSE LIGHT_THEME]
       IN  Done("setTheme", p, renderGeometries(p, Renderer), shotMap)

\* pitch.setOrientation(orientation)
SetOrientation(orientation) ==
    /\ pitch.constructed
    /\ IF pitch.config.orientation = orientation
       THEN Done("setOrientation", pitch, Renderer, shotMap)
       ELSE LET p   == [pitch EXCEPT !.config.orientation = orientation,
                                     !.geometry = PitchGeometry(pitch.config.dimensions,
                                                                orientation)]
                res == render(p, Renderer, shotMap)
            IN  Done("setOrientation", p, res.r, res.sm)

\* pitch.add(shotMap)
PitchAdd ==
    /\ pitch.constructed
    /\ shotMap.constructed
    /\ LET p   == [pitch EXCEPT !.visualizations =
                      IF "shotmap" \in Range(@) THEN @ ELSE Append(@, "shotmap")]
           res == ShotMapRender(Renderer, shotMap, pitch.scale)
       IN  Done("add", p, res.r, res.sm)

\* ShotMap.destroy as a function: the layer goes, the renderer stays referenced.
ShotMapDestroyed(sm) == [sm EXCEPT !.destroyed = TRUE]

destroyShotMap(r, sm) == IF sm.attached THEN CallRemoveLayer(r, "shotmap") ELSE r

\* pitch.destroy()
PitchDestroy ==
    /\ pitch.constructed
    /\ LET has == "shotmap" \in Range(pitch.visualizations)
           r1  == IF has THEN destroyShotMap(Renderer, shotMap) ELSE Renderer
       IN  Done("Pitch.destroy",
                [pitch EXCEPT !.visualizations = <<>>, !.isDestroyed = TRUE],
                CallDestroy(r1),
                IF has THEN ShotMapDestroyed(shotMap) ELSE shotMap)

\* shotMap.setData(data)
SetData(data) ==
    /\ shotMap.constructed
    /\ LET sm == [shotMap EXCEPT !.data = data]
       IN  Done("setData", pitch, draw(Renderer, sm), sm)

\* shotMap.setFilter(filter)
SetFilter(filter) ==
    /\ shotMap.constructed
    /\ LET sm == [shotMap EXCEPT !.config.filter = Spread(@, filter)]
       IN  Done("setFilter", pitch, draw(Renderer, sm), sm)

\* shotMap.highlight(shotId)
Highlight(shotId) ==
    /\ shotMap.constructed
    /\ LET sm == [shotMap EXCEPT !.highlightedShotId = shotId]
       IN  Done("highlight", pitch, draw(Renderer, sm), sm)

\* shotMap.clearHighlight()
ClearHighlight ==
    /\ shotMap.constructed
    /\ LET sm == [shotMap EXCEPT !.highlightedShotId = ""]
       IN  Done("clearHighlight", pitch, draw(Renderer, sm), sm)

\* shotMap.destroy()
ShotMapDestroy ==
    /\ shotMap.constructed
    /\ Done("ShotMap.destroy", pitch, destroyShotMap(Renderer, shotMap),
            ShotMapDestroyed(shotMap))

NextPitch ==
    \/ \E c \in AttachedContainers \cup {NULL}, o \in PitchOptions : NewPitch(c, o)
    \/ \E d \in ShotData, f \in ShotFilters : NewShotMap(d, f)
    \/ PitchRender
    \/ \E t \in ThemeInputs : SetTheme(t)
    \/ \E o \in Orientations : SetOrientation(o)
    \/ PitchAdd
    \/ PitchDestroy
    \/ \E d \in ShotData : SetData(d)
    \/ \E f \in ShotFilters : SetFilter(f)
    \/ \E id \in ShotIds : Highlight(id)
    \/ ClearHighlight
    \/ ShotMapDestroy

SpecPitch == InitCharts /\ [][NextPitch]_vars

\* ------------------------------------------------ claims: Pitch, ShotMap
\* The shot circles anywhere in the scene graph: inside the groups under the
\* root and directly under it.
RECURSIVE Flatten(_)
Flatten(ss) == IF ss = <<>> THEN <<>> ELSE Head(ss) \o Flatten(Tail(ss))

IsShotCircle(e) == e.type = "circle" /\ "shot" \in DOMAIN e

CirclesIn(content) == SelectSeq(content, LAMBDA e : IsShotCircle(e))

StrayCircles == SelectSeq(surface, LAMBDA n : n.tag = "elem" /\ n.type = "circle")

ShotCircles ==
    Flatten([i \in 1..Len(svgLayers) |-> CirclesIn(svgLayers[i].content)])

PassesFilter(shot) ==
    LET f == shotMap.config.filter
    IN  /\ ("teamId" \in DOMAIN f /\ f.teamId # Undefined) => shot.team.id = f.teamId
        /\ ("playerId" \in DOMAIN f /\ f.playerId # Undefined) =>
              ("player" \in DOMAIN shot /\ shot.player.id = f.playerId)

ShotMapMethods == {"setData", "setFilter", "highlight", "clearHighlight"}

\* The shot map was added to a live pitch and nothing has been destroyed.
Added ==
    /\ shotMap.constructed /\ shotMap.attached /\ ~shotMap.destroyed
    /\ pitch.constructed /\ ~pitch.isDestroyed

\* C26: after setData, setFilter, highlight or clearHighlight on a shot map
\* that was added to a pitch, the surface holds exactly one shot circle per
\* shot of the current data that passes the current filter, in data order, and
\* no other shot circle.
C26_OneCirclePerFilteredShot ==
    (Added /\ lastOp.name \in ShotMapMethods) =>
        /\ StrayCircles = <<>>
        /\ [i \in 1..Len(ShotCircles) |-> ShotCircles[i].shot]
              = [i \in 1..Len(SelectSeq(shotMap.data, PassesFilter)) |->
                    SelectSeq(shotMap.data, PassesFilter)[i].id]

\* A filter change that removed circles, after the data had been replaced.
C26_Witness ==
    /\ Added
    /\ lastOp.name = "setFilter"
    /\ Len(shotMap.data) = 3
    /\ Len(ShotCircles) = 1
    /\ shotMap.highlightedShotId # ""

\* C27: once Pitch.destroy() has run, render() throws and no call changes
\* the pitch's configuration, its registered visualizations or the drawing
\* surface.
C27_DestroyedPitchIsInert ==
    [][pitch.isDestroyed =>
          /\ pitch'.config = pitch.config
          /\ pitch'.visualizations = pitch.visualizations
          /\ surface' = surface /\ svgLayers' = svgLayers
          /\ lastOp'.name = "render" => lastOp'.threw]_vars

\* C30: a render that names a layer which is not registered puts no node
\* outside the registered layers; after ShotMap.destroy() removed the shot
\* map's layer, setData, setFilter, highlight and clearHighlight add no shot
\* circle to the drawing surface.
C30_NothingOutsideLayers ==
    \A i \in 1..Len(surface) : surface[i].tag # "elem"

\* ------------------------------------------------ claims: layers, events
\* Under the root there is one group for each registered layer and no other
\* group.
GroupsMatchRegistry(surf, reg) ==
    /\ \A i \in 1..Len(surf) : surf[i].tag # "orphan"
    /\ \A id \in LayerIds :
          Cardinality({i \in 1..Len(surf) : IsLayerNodeOf(surf[i], id)})
             = IF HasLayer(reg, id) THEN 1 ELSE 0

\* C28: on the SVG renderer addLayer and removeLayer, addLayer with a
\* registered id included, keep the group nodes under the root in one-to-one
\* correspondence with the registered layers: no group stays in the scene
\* graph for a layer that is not in the registry.
C28_GroupsMatchRegistry ==
    [][(/\ kind = "svg"
        /\ lastOp'.name \in {"addLayer", "removeLayer"}
        /\ GroupsMatchRegistry(surface, svgLayers))
          => GroupsMatchRegistry(surface', svgLayers')]_vars

\* Subscribers that subscribe or unsubscribe g while they are being notified.
DispatchedEvents == {"init", "clear"}

NextEvents ==
    \/ \E c \in AttachedContainers, cfg \in Configs : RendererInit(c, cfg)
    \/ \E e \in DispatchedEvents, cb \in Callbacks : On(e, cb)
    \/ \E e \in DispatchedEvents, cb \in Callbacks : Off(e, cb)
    \/ BaseClear
    \/ SvgClear

SpecEvents == Init /\ [][NextEvents]_vars

\* C29: the callbacks invoked for one emission are exactly those subscribed
\* to the event when the emission began; an on or off made by a callback
\* during the dispatch does not change who runs in that dispatch.
C29_DispatchOverSnapshot ==
    \A i \in 1..Len(trace) : Range(trace[i].invoked) = Range(trace[i].subs)

====
